---- MODULE Spec2Model ----
(***************************************************************************)
(* Collision subsystem of bwb: the spatial hash (calc_bin, grid_hash,      *)
(* build_map), the bin-size estimator (calc_bin_size), the SAT narrow      *)
(* phase (is_collision) and CollisionSystem::new / process with its        *)
(* parallel fold over the bins and its sequential handler dispatch.        *)
(***************************************************************************)
EXTENDS Integers, Sequences, FiniteSets, Bags, TLC

\* ------------------------------------------------------------------------
\* Program constants
\* ------------------------------------------------------------------------

\* world.rs: pub const GRID_WIDTH: u32 = 10000;
GRID_WIDTH == 10000

\* world.rs: pub const GRID_HEIGHT: u32 = 10000;
GRID_HEIGHT == 10000

\* collision_system.rs, calc_bin_size: let default = 250;
DEFAULT_BIN_SIZE == 250

\* ------------------------------------------------------------------------
\* Bounds of the model
\* ------------------------------------------------------------------------

\* Largest number of entities handed to CollisionSystem::new.
MaxEntities == 4

\* Largest number of ids of the spatial maps that have no entry in the
\* geometry maps handed to process.
MaxMissing == 1

\* How many times rayon may split the bin range 0..bin_count in two before
\* the pieces are folded sequentially.
MaxSplitDepth == 1

\* ------------------------------------------------------------------------
\* Integer helpers (Rust i32 semantics)
\* ------------------------------------------------------------------------

\* Rust's `/` on i32 truncates toward zero (b > 0 here).
TruncDiv(a, b) == IF a >= 0 THEN a \div b ELSE -((-a) \div b)

Min2(a, b) == IF a <= b THEN a ELSE b

Max2(a, b) == IF a >= b THEN a ELSE b

\* std::i32::MAX and std::i32::MIN, the seed of the projection fold.
I32_MAX == 2147483647

I32_MIN == -2147483647 - 1

RECURSIVE ISqrtBetween(_, _, _)
\* Largest r in lo..hi with r * r <= n (binary search).
ISqrtBetween(n, lo, hi) ==
    IF lo >= hi THEN lo
    ELSE LET mid == (lo + hi + 1) \div 2
         IN  IF mid * mid <= n THEN ISqrtBetween(n, mid, hi)
                               ELSE ISqrtBetween(n, lo, mid - 1)

\* floor(sqrt(n)) for 0 <= n < 2^31.
ISqrt(n) == ISqrtBetween(n, 0, 46340)

\* ------------------------------------------------------------------------
\* geometry.rs
\* ------------------------------------------------------------------------

\* fn edge(v1, v2) -> Vector
Edge(v1, v2) == <<v2[1] - v1[1], v2[2] - v1[2]>>

\* fn normal(vector) -> Vector
Normal(vector) == <<-vector[2], vector[1]>>

\* fn dotprod(vector1, vector2) -> i32
DotProd(vector1, vector2) == vector1[1] * vector2[1] + vector1[2] * vector2[2]

\* check_overlap with `<=` and `>=` in the place of `<` and `>`: ranges that
\* only touch do not overlap.
CheckOverlapStrict(range1, range2) ==
    LET r1min == range1[1]
        r1max == range1[2]
        r2min == range2[1]
        r2max == range2[2]
    IN  IF (r2min <= r1min /\ r2max <= r1min) \/ (r2min >= r1min /\ r2min >= r1max)
        THEN FALSE
        ELSE TRUE

\* fn check_overlap(range1, range2) -> bool
CheckOverlap(range1, range2) ==
    LET r1min == range1[1]
        r1max == range1[2]
        r2min == range2[1]
        r2max == range2[2]
    IN  IF (r2min < r1min /\ r2max < r1min) \/ (r2min > r1min /\ r2min > r1max)
        THEN FALSE
        ELSE TRUE

\* fn build_range(current, input) -> MinMax
BuildRange(current, input) == <<Min2(current[1], input), Max2(current[2], input)>>

RECURSIVE ProjectFrom(_, _, _, _)
\* The fold of calc_projected_range, from vertex i on.
ProjectFrom(poly, normal, i, acc) ==
    IF i > Len(poly) THEN acc
    ELSE ProjectFrom(poly, normal, i + 1, BuildRange(acc, DotProd(poly[i], normal)))

\* fn calc_projected_range(poly, normal) -> MinMax
CalcProjectedRange(poly, normal) == ProjectFrom(poly, normal, 1, <<I32_MAX, I32_MIN>>)

\* The body of the inner loop of is_collision for edge iv of `poly`:
\* TRUE when the projections on that edge's normal overlap.
AxisOverlaps(poly, iv, poly1, poly2) ==
    LET normal == Normal(Edge(poly[iv - 1], poly[iv]))
    IN  CheckOverlap(CalcProjectedRange(poly1, normal),
                     CalcProjectedRange(poly2, normal))

\* is_collision returning true as soon as the projections on the first
\* normal overlap.
IsCollisionFirstEdge(poly1, poly2) == AxisOverlaps(poly1, 2, poly1, poly2)

\* is_collision looking at the edges of poly1 only.
IsCollisionFirstPolygon(poly1, poly2) ==
    \A iv \in 2..Len(poly1) : AxisOverlaps(poly1, iv, poly1, poly2)

\* pub fn is_collision(poly1, poly2) -> bool, for closed polygons (the two
\* assert_eq! of the function hold). Tuples are 1-based: edge iv joins
\* vertex iv - 1 to vertex iv, for iv in 2..len.
IsCollision(poly1, poly2) ==
    /\ \A iv \in 2..Len(poly1) : AxisOverlaps(poly1, iv, poly1, poly2)
    /\ \A iv \in 2..Len(poly2) : AxisOverlaps(poly2, iv, poly1, poly2)

\* is_collision with the assertion on poly1 only.
IsCollisionAssertedFirstOnly(poly1, poly2) ==
    IF poly1[1] # poly1[Len(poly1)]
    THEN [panic |-> TRUE, value |-> FALSE]
    ELSE [panic |-> FALSE, value |-> IsCollision(poly1, poly2)]

\* pub fn is_collision(poly1, poly2) with its two assert_eq!: a failed
\* assertion is a panic, and no value is returned.
IsCollisionAsserted(poly1, poly2) ==
    IF poly1[1] # poly1[Len(poly1)] \/ poly2[1] # poly2[Len(poly2)]
    THEN [panic |-> TRUE, value |-> FALSE]
    ELSE [panic |-> FALSE, value |-> IsCollision(poly1, poly2)]

\* pub fn box_side_len_sqr(geom) -> i32
BoxSideLenSqr(geom) ==
    LET dx == geom[2][1] - geom[1][1]
        dy == geom[2][2] - geom[1][2]
    IN  dx * dx + dy * dy

\* ------------------------------------------------------------------------
\* Entities and the geometries handed to the collision system
\* ------------------------------------------------------------------------

\* entity.rs: pub enum EntityKind (UNDEFINED is never a real entity).
EntityKinds == {"Wall", "Baddie", "Bullet", "Cannon"}

\* world.rs, update_geometry with rotation 0.0: rotate() leaves every vertex
\* where it is (sin = 0, cos = 1), so the box is axis-aligned.
BoxGeometry(center, size) ==
    LET cx == center[1]
        cy == center[2]
        delta == size \div 2
    IN  << <<cx - delta, cy - delta>>, <<cx + delta, cy - delta>>,
           <<cx + delta, cy + delta>>, <<cx - delta, cy + delta>>,
           <<cx - delta, cy - delta>> >>

\* world.rs, update_geometry with the cannon's rotation PI / 4 (make_cannon):
\* in f32, sin = cos, so every corner lands on an axis through the centre,
\* at distance h = trunc(delta * 2 * 0.70710677) from it.
CannonGeometry(center, h) ==
    LET cx == center[1]
        cy == center[2]
    IN  << <<cx, cy - h>>, <<cx + h, cy>>, <<cx, cy + h>>, <<cx - h, cy>>,
           <<cx, cy - h>> >>

\* The entities the model draws its worlds from; an entity's id is its
\* position in this list (EntityId is an opaque unique number). The
\* entities of one scene are made by one ObjectFactory.
\* Scene 1, ObjectFactory::new(400), as in tests::collision_static_simple:
\*   1, 2   its two walls
\*   3, 4   its two baddies: 3 overlaps wall 1, 4 sits at the origin
\*   5      a bullet overlapping wall 1 and baddie 3
\*   6      a baddie overlapping wall 1 and wall 2
\*   7, 8   a wall and a baddie overlapping it, elsewhere in the arena
\*   9      a bullet overlapping the right edge of wall 7
\* Scene 2, ObjectFactory::new(100), a level of base size 100:
\*   10     the cannon where build_level puts it, at the arena's centre
\*   11     a baddie overlapping the cannon's upper left edge
\*   12     a baddie overlapping the cannon's centre
Catalogue ==
    << [scene |-> 1, kind |-> "Wall",   geom |-> BoxGeometry(<<1200, 1200>>, 400)],
       [scene |-> 1, kind |-> "Wall",   geom |-> BoxGeometry(<<1700, 1700>>, 400)],
       [scene |-> 1, kind |-> "Baddie", geom |-> BoxGeometry(<<1200, 1200>>, 300)],
       [scene |-> 1, kind |-> "Baddie", geom |-> BoxGeometry(<<0, 0>>, 300)],
       [scene |-> 1, kind |-> "Bullet", geom |-> BoxGeometry(<<1340, 1200>>, 40)],
       [scene |-> 1, kind |-> "Baddie", geom |-> BoxGeometry(<<1450, 1450>>, 300)],
       [scene |-> 1, kind |-> "Wall",   geom |-> BoxGeometry(<<1700, 5300>>, 400)],
       [scene |-> 1, kind |-> "Baddie", geom |-> BoxGeometry(<<1700, 5300>>, 300)],
       [scene |-> 1, kind |-> "Bullet", geom |-> BoxGeometry(<<1800, 5300>>, 40)],
       [scene |-> 2, kind |-> "Cannon", geom |-> CannonGeometry(<<5000, 5000>>, 14)],
       [scene |-> 2, kind |-> "Baddie", geom |-> BoxGeometry(<<4958, 4958>>, 75)],
       [scene |-> 2, kind |-> "Baddie", geom |-> BoxGeometry(<<5010, 5010>>, 75)] >>

EntityIds == 1..Len(Catalogue)

KindOf(id) == Catalogue[id].kind

\* The worlds: at most MaxEntities entities of one scene.
Worlds ==
    {w \in SUBSET EntityIds :
        /\ Cardinality(w) <= MaxEntities
        /\ \A e1 \in w, e2 \in w : Catalogue[e1].scene = Catalogue[e2].scene}

\* world.rs, destructure_geom: the GeomRefMap of one entity kind.
GeomsOfKind(world, kind) ==
    [id \in {e \in world : KindOf(e) = kind} |-> Catalogue[id].geom]

\* The four GeomRefMaps of a world, by kind.
DestructureGeom(world) == [kind \in EntityKinds |-> GeomsOfKind(world, kind)]

\* ------------------------------------------------------------------------
\* collision_system.rs: the spatial hash
\* ------------------------------------------------------------------------

\* pub enum CollisionKind
CollisionKinds == {"BaddieWall", "BulletWall", "BulletBaddie", "BaddieCannon"}

\* The count of the bins without the margin of one per axis.
CalcBinCountNoMargin(grid_bin_size) ==
    (GRID_WIDTH \div grid_bin_size) * (GRID_HEIGHT \div grid_bin_size)

\* fn calc_bin_count(grid_bin_size) -> i32
CalcBinCount(grid_bin_size) ==
    ((GRID_WIDTH \div grid_bin_size) + 1) * ((GRID_HEIGHT \div grid_bin_size) + 1)

\* fn calc_bin(vertex, grid_bin_size) -> i32. `as` binds tighter than `*`,
\* and `*` and `/` associate to the left: by * GRID_WIDTH is divided.
CalcBin(vertex, grid_bin_size) ==
    LET bx == TruncDiv(vertex[1], grid_bin_size)
        by == TruncDiv(vertex[2], grid_bin_size)
    IN  bx + TruncDiv(by * GRID_WIDTH, grid_bin_size)

\* fn grid_hash(vertices, grid_bin_size) -> Bins
GridHash(vertices, grid_bin_size) ==
    {CalcBin(vertices[i], grid_bin_size) : i \in 1..Len(vertices)}

\* fn build_map(geometries, grid_bin_size): the SpatialIndex of the pair.
BuildIndex(geometries, grid_bin_size) ==
    [id \in DOMAIN geometries |-> GridHash(geometries[id], grid_bin_size)]

\* fn build_map(geometries, grid_bin_size): the SpatialMap of the pair
\* (ids are the keys of a map, so no id is inserted twice).
BuildMap(geometries, grid_bin_size) ==
    LET index == BuildIndex(geometries, grid_bin_size)
    IN  [bin \in UNION {index[id] : id \in DOMAIN geometries} |->
            {id \in DOMAIN geometries : bin \in index[id]}]

\* ------------------------------------------------------------------------
\* collision_system.rs: calc_bin_size
\* ------------------------------------------------------------------------

\* The values `(m as f32).sqrt() * SQRT_2` truncated to i32 can take. The
\* exact product is sqrt(2 m); the two f32 roundings move it by a relative
\* error below 2^-22, which changes the truncation only when 2 m is a
\* perfect square r * r: the result is then r or r - 1.
F32SqrtTimesSqrt2(m) ==
    LET r == ISqrt(2 * m)
    IN  IF r * r = 2 * m /\ r > 0 THEN {r - 1, r} ELSE {r}

\* `.iter().take(1)` of each of the four maps, chained: the first entry of
\* a HashMap's iteration is any entry of the map.
Representatives(geom_maps) ==
    LET nonempty == {k \in EntityKinds : DOMAIN geom_maps[k] # {}}
    IN  {rep \in [nonempty -> UNION {DOMAIN geom_maps[k] : k \in nonempty}] :
            \A k \in nonempty : rep[k] \in DOMAIN geom_maps[k]}

SetMax(S) == CHOOSE x \in S : \A y \in S : y <= x

\* calc_bin_size without the final std::cmp::max(res, default).
CalcBinSizesForNoFloor(geom_maps, rep) ==
    LET sqrs == {BoxSideLenSqr(geom_maps[k][rep[k]]) : k \in DOMAIN rep}
        m == IF sqrs = {} THEN DEFAULT_BIN_SIZE ELSE SetMax(sqrs)
    IN  F32SqrtTimesSqrt2(m)

\* fn calc_bin_size(walls, baddies, bullets, cannons) -> i32, the first
\* entries of the four maps being those of `rep`: the values it can return.
CalcBinSizesFor(geom_maps, rep) ==
    LET sqrs == {BoxSideLenSqr(geom_maps[k][rep[k]]) : k \in DOMAIN rep}
        m == IF sqrs = {} THEN DEFAULT_BIN_SIZE ELSE SetMax(sqrs)
    IN  {Max2(res, DEFAULT_BIN_SIZE) : res \in F32SqrtTimesSqrt2(m)}

\* fn calc_bin_size(walls, baddies, bullets, cannons) -> i32: every value
\* the call can return.
CalcBinSizes(geom_maps) ==
    UNION {CalcBinSizesFor(geom_maps, rep) : rep \in Representatives(geom_maps)}

\* ------------------------------------------------------------------------
\* collision_system.rs: detection
\* ------------------------------------------------------------------------

\* An Option is a tuple: None is << >>, Some(x) is <<x>>.
None == << >>

Some(x) == <<x>>

\* HashMap::get
MapGet(map, key) == IF key \in DOMAIN map THEN Some(map[key]) ELSE None

\* The lookup without `.or_else(empty)`: None stays None.
OrElseNothing(opt) == opt

\* add_collisions: `.or_else(empty)` with empty = || Some(empty_set)
OrElseEmpty(opt) == IF opt = None THEN Some({}) ELSE opt

\* Vec::push in the place of HashSet::insert: a pair found twice is kept
\* twice.
PairsPush(pairs, pair) == pairs (+) SetToBag({pair})

\* HashSet::insert on a set of pairs, the set held as a bag so that the
\* number of times the dispatch loop meets a pair is part of the state.
PairsInsert(pairs, pair) ==
    IF BagIn(pair, pairs) THEN pairs ELSE pairs (+) SetToBag({pair})

RECURSIVE InsertAll(_, _)
\* add_collisions: the loop `for (left_id, right_id) in collision_pairs`.
InsertAll(pairs, found) ==
    IF found = {} THEN pairs
    ELSE LET pair == CHOOSE p \in found : TRUE
         IN  InsertAll(PairsInsert(pairs, pair), found \ {pair})

\* A filter that lets every candidate pair through.
FilterPairNone(left_geoms, right_geoms, pair) == TRUE

\* add_collisions: the filter closure on one candidate pair whose two
\* geometries exist.
FilterPair(left_geoms, right_geoms, pair) ==
    IsCollision(left_geoms[pair[1]], right_geoms[pair[2]])

\* detect_collisions: the closure `init` (and the identity of reduce).
InitCollisions == [kind \in CollisionKinds |-> EmptyBag]

\* The outcome of a step that may panic.
Ok(acc) == [panic |-> FALSE, acc |-> acc]

Panic == [panic |-> TRUE, acc |-> InitCollisions]

\* add_collisions with `if let Some(..)` in the place of the two
\* `.get(id).unwrap()`: a candidate without geometry is skipped.
AddCollisionsSkipMissing(collisions_acc, kind, left, right, bin) ==
    LET left_ids == IF bin \in DOMAIN left[1] THEN left[1][bin] ELSE {}
        right_ids == IF bin \in DOMAIN right[1] THEN right[1][bin] ELSE {}
        present == {c \in left_ids \X right_ids :
                        c[1] \in DOMAIN left[2] /\ c[2] \in DOMAIN right[2]}
    IN  Ok([collisions_acc EXCEPT ![kind] =
                InsertAll(@, {c \in present :
                                IsCollision(left[2][c[1]], right[2][c[2]])})])

\* fn add_collisions(collisions_acc, kind, left, right, bin); left and right
\* are <<spatial map, geometry map>>. Every unwrap() is a panic on None.
AddCollisions(collisions_acc, kind, left, right, bin) ==
    LET left_opt == OrElseEmpty(MapGet(left[1], bin))
        right_opt == OrElseEmpty(MapGet(right[1], bin))
    IN  IF left_opt = None \/ right_opt = None THEN Panic
        ELSE LET candidates == left_opt[1] \X right_opt[1]
             IN  IF \E c \in candidates :
                        \/ MapGet(left[2], c[1]) = None
                        \/ MapGet(right[2], c[2]) = None
                 THEN Panic
                 ELSE Ok([collisions_acc EXCEPT ![kind] =
                            InsertAll(@, {c \in candidates :
                                            FilterPair(left[2], right[2], c)})])

\* The walls handed to add_collisions as the left side of BaddieWall and of
\* BulletWall.
SidesWallFirst(kind) ==
    CASE kind = "BaddieWall"   -> <<"Wall", "Baddie">>
      [] kind = "BulletWall"   -> <<"Wall", "Bullet">>
      [] kind = "BulletBaddie" -> <<"Bullet", "Baddie">>
      [] kind = "BaddieCannon" -> <<"Baddie", "Cannon">>

\* detect_collisions: the (left, right) entity kinds of every add_collisions
\* call of the fold closure.
Sides(kind) ==
    CASE kind = "BaddieWall"   -> <<"Baddie", "Wall">>
      [] kind = "BulletWall"   -> <<"Bullet", "Wall">>
      [] kind = "BulletBaddie" -> <<"Bullet", "Baddie">>
      [] kind = "BaddieCannon" -> <<"Baddie", "Cannon">>

\* detect_collisions: one add_collisions call of the fold closure, skipped
\* once an earlier call has panicked.
FoldStep(res, kind, spatial_maps, geom_maps, bin) ==
    IF res.panic THEN res
    ELSE AddCollisions(res.acc, kind,
                       <<spatial_maps[Sides(kind)[1]], geom_maps[Sides(kind)[1]]>>,
                       <<spatial_maps[Sides(kind)[2]], geom_maps[Sides(kind)[2]]>>,
                       bin)

\* The value of an expression, computed once.
Value(x) == CHOOSE v \in {x} : TRUE

\* detect_collisions: the fold closure on one bin: the four add_collisions
\* calls in their order.
FoldBin(collisions_acc, spatial_maps, geom_maps, bin) ==
    LET r1 == Value(FoldStep(Ok(collisions_acc), "BaddieWall", spatial_maps, geom_maps, bin))
        r2 == Value(FoldStep(r1, "BulletWall", spatial_maps, geom_maps, bin))
        r3 == Value(FoldStep(r2, "BulletBaddie", spatial_maps, geom_maps, bin))
    IN  FoldStep(r3, "BaddieCannon", spatial_maps, geom_maps, bin)

\* The bins of lo..hi-1 the sequential fold is computed on: every bin that
\* is a key of one of the four spatial maps, and the first bin that is a
\* key of none. The fold closure reads `bin` only in the lookups
\* `left_map.get(bin)` and `right_map.get(bin)`, so it acts alike on all the
\* bins that are keys of no map, and acting twice is acting once (it adds
\* no pair, or it panics): one such bin stands for them all.
BinsToFold(spatial_maps, lo, hi) ==
    LET keys == {bin \in UNION {DOMAIN spatial_maps[k] : k \in EntityKinds} :
                    lo <= bin /\ bin < hi}
    IN  IF Cardinality(keys) = hi - lo THEN keys
        ELSE keys \cup {CHOOSE bin \in lo..(hi - 1) :
                            /\ bin \notin keys
                            /\ \A b \in lo..(bin - 1) : b \in keys}

RECURSIVE FoldBins(_, _, _, _)
\* The fold closure applied to the bins of `bins` in increasing order, from
\* the outcome `res`: a panic ends the fold.
FoldBins(res, spatial_maps, geom_maps, bins) ==
    IF res.panic \/ bins = {} THEN res
    ELSE LET bin == CHOOSE b \in bins : \A c \in bins : b <= c
         IN  CHOOSE out \in
                 {FoldBins(next, spatial_maps, geom_maps, bins \ {bin}) :
                     next \in {FoldBin(res.acc, spatial_maps, geom_maps, bin)}} : TRUE

\* detect_collisions: `.fold(init, ...)` on the piece lo..hi-1 of the
\* range 0..bin_count, by one worker, from the accumulator `res`.
FoldRange(res, spatial_maps, geom_maps, lo, hi) ==
    FoldBins(res, spatial_maps, geom_maps, BinsToFold(spatial_maps, lo, hi))

RECURSIVE MergePairs(_, _)
\* detect_collisions, reduce closure: `for collision in entries`.
MergePairs(acc_collisionpairs, entries) ==
    IF entries = EmptyBag THEN acc_collisionpairs
    ELSE LET collision == CHOOSE c \in BagToSet(entries) : TRUE
         IN  MergePairs(PairsInsert(acc_collisionpairs, collision),
                        entries (-) SetToBag({collision}))

\* HashMap::insert of the sub-result's entries over those of acc, in the
\* place of the insertion of every pair.
MergeReplace(acc, c_sub) == [kind \in CollisionKinds |-> c_sub[kind]]

\* detect_collisions, reduce closure |acc, c_sub|.
MergeCollisions(acc, c_sub) ==
    [kind \in CollisionKinds |-> MergePairs(acc[kind], c_sub[kind])]

\* ------------------------------------------------------------------------
\* State
\* ------------------------------------------------------------------------

VARIABLES
    new_geoms,      \* the four GeomRefMaps CollisionSystem::new was given, by kind
    spatial_maps,   \* wall_map, baddie_map, bullet_map, cannon_map, by kind
    grid_bin_size,  \* CollisionSystem.grid_bin_size
    pc,             \* "idle", "detect", "dispatch", "done" or "panic"
    geom_maps,      \* the four GeomRefMaps process was given, by kind
    parts,          \* the pieces of the parallel fold, left to right
    collisions,     \* process: what is left of `collisions` for the two loops
    current,        \* process: the collision kind of the outer loop, or "none"
    calls,          \* the handler calls made so far: <<kind, left id, right id>>
    call,           \* a single function called on its own: its name, arguments, result
    entities,       \* World.0: the kind of every entity of the world, by id
    shapes,         \* World.1: the Shape of every entity, by id
    geometries,     \* World.2: the Geometry of every entity, by id
    healths,        \* World.3: the Health of the entities that have one, by id
    removal,        \* detect_and_handle_collisions: to_remove, to_remove_2, to_remove_3
    level_state,    \* the LevelState update_world returned last, or "none"
    tick,           \* the update_world call under way or made last: its number, dt,
                    \* and the entities, shapes and healths it was given
    ID_COUNTER,     \* entity.rs: static mut ID_COUNTER
    prev_fire_time, \* play_level: the instant try_fire returned last, in ms
    fired           \* the bullets try_fire has made: <<id, instant>>, oldest first

\* The state of a CollisionSystem and of its process call.
collisionVars == <<new_geoms, spatial_maps, grid_bin_size, pc, geom_maps, parts,
                   collisions, current, calls>>

\* The state of a function called on its own.
fnVars == <<call>>

\* The state of the game: the world and the update_world call on it.
gameVars == <<entities, shapes, geometries, healths, removal, level_state, tick,
              ID_COUNTER, prev_fire_time, fired>>

\* The part of it that Entity::new and try_fire keep.
fireVars == <<ID_COUNTER, prev_fire_time, fired>>

vars == <<collisionVars, fnVars, gameVars>>

\* detect_and_handle_collisions: the three removal collections, empty.
NoRemoval == [to_remove |-> {}, to_remove_2 |-> {}, to_remove_3 |-> {}]

\* No game is played: the world is empty and update_world was never called.
NoGame ==
    /\ entities = << >>
    /\ shapes = << >>
    /\ geometries = << >>
    /\ healths = << >>
    /\ removal = NoRemoval
    /\ level_state = "none"
    /\ tick = [n |-> 0, dt |-> 0, entities |-> << >>, shapes |-> << >>,
               healths |-> << >>]
    /\ ID_COUNTER = 0
    /\ prev_fire_time = 0
    /\ fired = << >>

\* No function has been called on its own.
NoCall == [fn |-> "none"]

\* CollisionSystem::new(walls, baddies, bullets, cannons, ...): the spatial
\* maps of a system built with bin size `size`.
NewSpatialMaps(geoms, size) == [kind \in EntityKinds |-> BuildMap(geoms[kind], size)]

\* The state after CollisionSystem::new on the geometries of some world.
Init ==
    /\ \E world \in Worlds :
          /\ new_geoms = DestructureGeom(world)
          /\ grid_bin_size \in CalcBinSizes(DestructureGeom(world))
          /\ spatial_maps = NewSpatialMaps(DestructureGeom(world), grid_bin_size)
    /\ pc = "idle"
    /\ geom_maps = new_geoms
    /\ parts = << >>
    /\ collisions = InitCollisions
    /\ current = "none"
    /\ calls = << >>
    /\ call = NoCall
    /\ NoGame

\* ------------------------------------------------------------------------
\* CollisionSystem::process
\* ------------------------------------------------------------------------

\* The ids of the four geometry maps.
IdsOf(geoms) == UNION {DOMAIN geoms[kind] : kind \in EntityKinds}

\* A geometry map without the ids of `missing`.
Without(geoms, missing) ==
    [kind \in EntityKinds |->
        [id \in DOMAIN geoms[kind] \ missing |-> geoms[kind][id]]]

\* One piece of the parallel fold: the bins lo..hi-1, reached by the splits
\* of `path` (0 = left half, 1 = right half).
Piece(path, lo, hi, done, acc) ==
    [path |-> path, lo |-> lo, hi |-> hi, done |-> done, acc |-> acc]

\* process is called with the geometry maps new was given, less `missing`;
\* detect_collisions starts its parallel iterator over 0..bin_count.
Process(missing) ==
    /\ pc = "idle"
    /\ Cardinality(missing) <= MaxMissing
    /\ pc' = "detect"
    /\ geom_maps' = Without(new_geoms, missing)
    /\ parts' = << Piece(<< >>, 0, CalcBinCount(grid_bin_size), FALSE, InitCollisions) >>
    /\ UNCHANGED <<new_geoms, spatial_maps, grid_bin_size, collisions, current, calls>>
    /\ UNCHANGED <<fnVars, gameVars>>

\* The sequence s with element i replaced by the elements of r.
Splice(s, i, r) == SubSeq(s, 1, i - 1) \o r \o SubSeq(s, i + 1, Len(s))

\* rayon splits a piece of the range in two halves at len / 2.
Split(i) ==
    /\ pc = "detect"
    /\ i \in 1..Len(parts)
    /\ ~parts[i].done
    /\ Len(parts[i].path) < MaxSplitDepth
    /\ parts[i].hi - parts[i].lo >= 2
    /\ LET p == parts[i]
           mid == p.lo + (p.hi - p.lo) \div 2
       IN  parts' = Splice(parts, i,
                 << Piece(Append(p.path, 0), p.lo, mid, FALSE, InitCollisions),
                    Piece(Append(p.path, 1), mid, p.hi, FALSE, InitCollisions) >>)
    /\ UNCHANGED <<new_geoms, spatial_maps, grid_bin_size, pc, geom_maps,
                   collisions, current, calls>>
    /\ UNCHANGED <<fnVars, gameVars>>

\* One worker folds a piece sequentially from init(); a panic of the fold
\* closure is the panic of process.
Fold(i) ==
    /\ pc = "detect"
    /\ i \in 1..Len(parts)
    /\ ~parts[i].done
    /\ LET p == parts[i]
           res == FoldRange(Ok(InitCollisions), spatial_maps, geom_maps, p.lo, p.hi)
       IN  IF res.panic
           THEN /\ pc' = "panic"
                /\ parts' = parts
           ELSE /\ pc' = pc
                /\ parts' = [parts EXCEPT ![i] = Piece(p.path, p.lo, p.hi, TRUE, res.acc)]
    /\ UNCHANGED <<new_geoms, spatial_maps, grid_bin_size, geom_maps,
                   collisions, current, calls>>
    /\ UNCHANGED <<fnVars, gameVars>>

\* reduce stitches the results of the two halves of a split together.
Reduce(i) ==
    /\ pc = "detect"
    /\ i \in 1..(Len(parts) - 1)
    /\ parts[i].done /\ parts[i + 1].done
    /\ Len(parts[i].path) = Len(parts[i + 1].path)
    /\ Len(parts[i].path) > 0
    /\ LET l == parts[i]
           r == parts[i + 1]
           up == SubSeq(l.path, 1, Len(l.path) - 1)
       IN  /\ up = SubSeq(r.path, 1, Len(r.path) - 1)
           /\ parts' = Splice(parts, i,
                    << Piece(up, l.lo, r.hi, TRUE, MergeCollisions(l.acc, r.acc)) >>)
    /\ UNCHANGED <<new_geoms, spatial_maps, grid_bin_size, pc, geom_maps,
                   collisions, current, calls>>
    /\ UNCHANGED <<fnVars, gameVars>>

\* A dispatch that starts on the first piece's result as soon as it is
\* there.
FirstPieceDone(ps) == Len(ps) >= 1 /\ ps[1].done

\* process: detect_collisions may return once every piece is folded and
\* reduced to one.
DetectionComplete(ps) == Len(ps) = 1 /\ ps[1].done

\* detect_collisions returns `collisions`.
Detected ==
    /\ pc = "detect"
    /\ DetectionComplete(parts)
    /\ pc' = "dispatch"
    /\ collisions' = parts[1].acc
    /\ UNCHANGED <<new_geoms, spatial_maps, grid_bin_size, geom_maps, parts,
                   current, calls>>
    /\ UNCHANGED <<fnVars, gameVars>>

\* One flat loop over the pairs of all kinds, in any order.
MayHandleAny(kind, cur, colls) == TRUE

\* process: the nested loops. The outer loop takes the kinds in the
\* iteration order of the HashMap `collisions`, which is any order; a kind
\* may be taken up when the inner loop over the kind before it is over.
MayHandle(kind, cur, colls) ==
    IF cur = "none" THEN TRUE ELSE cur = kind \/ colls[cur] = EmptyBag

\* process: handler(collision_pair.0, collision_pair.1) for the next pair
\* of the inner loop, in the iteration order of the HashSet (any order).
Handle(kind, pair) ==
    /\ pc = "dispatch"
    /\ BagIn(pair, collisions[kind])
    /\ MayHandle(kind, current, collisions)
    /\ current' = kind
    /\ collisions' = [collisions EXCEPT ![kind] = @ (-) SetToBag({pair})]
    /\ calls' = Append(calls, <<kind, pair[1], pair[2]>>)
    /\ UNCHANGED <<new_geoms, spatial_maps, grid_bin_size, pc, geom_maps, parts>>
    /\ UNCHANGED <<fnVars, gameVars>>

\* process returns when both loops are over.
Finish ==
    /\ pc = "dispatch"
    /\ \A kind \in CollisionKinds : collisions[kind] = EmptyBag
    /\ pc' = "done"
    /\ UNCHANGED <<new_geoms, spatial_maps, grid_bin_size, geom_maps, parts,
                   collisions, current, calls>>
    /\ UNCHANGED <<fnVars, gameVars>>

Next ==
    \/ \E missing \in SUBSET IdsOf(new_geoms) : Process(missing)
    \/ \E i \in 1..Len(parts) : Split(i)
    \/ \E i \in 1..Len(parts) : Fold(i)
    \/ \E i \in 1..Len(parts) : Reduce(i)
    \/ Detected
    \/ \E kind \in CollisionKinds : \E pair \in BagToSet(collisions[kind]) : Handle(kind, pair)
    \/ Finish

Spec == Init /\ [][Next]_vars

\* ------------------------------------------------------------------------
\* The functions of the collision system and of geometry.rs, each called on
\* its own
\* ------------------------------------------------------------------------

\* The bin sizes the functions are called with: the floor of calc_bin_size,
\* the sizes it computes for boxes of 300 and 400 units, the size of the
\* repository's tests, and the arena's width.
BinSizes == {250, 424, 565, 1000, 10000}

\* The coordinates of the vertices calc_bin is called with: inside the
\* arena, on its edges, and overhanging its low edge as the vertices of a
\* box centred on the edge do.
Coordinates == {-600, -565, -250, -150, -1, 0, 1, 249, 250, 1000, 1400, 2000, 9999, 10000}

\* The state of a system no process call is made on, for the behaviours in
\* which the functions are called on their own.
NoSystem ==
    /\ new_geoms = DestructureGeom({})
    /\ grid_bin_size = DEFAULT_BIN_SIZE
    /\ spatial_maps = NewSpatialMaps(DestructureGeom({}), DEFAULT_BIN_SIZE)
    /\ pc = "idle"
    /\ geom_maps = DestructureGeom({})
    /\ parts = << >>
    /\ collisions = InitCollisions
    /\ current = "none"
    /\ calls = << >>

InitFn == NoSystem /\ call = NoCall /\ NoGame

\* Every bin size from the floor of calc_bin_size to beyond the arena's
\* width.
ScannedSizes == DEFAULT_BIN_SIZE..(GRID_WIDTH + 1)

\* The vertices furthest from the origin inside the arena.
ArenaCorners == {<<GRID_WIDTH, GRID_HEIGHT>>, <<GRID_WIDTH, 0>>, <<0, GRID_HEIGHT>>,
                 <<GRID_WIDTH - 1, GRID_HEIGHT>>}

\* The calls of calc_bin: every vertex of Coordinates with every size of
\* BinSizes, and the arena's corners with every size of ScannedSizes.
CalcBinInputs ==
    ((Coordinates \X Coordinates) \X BinSizes) \cup (ArenaCorners \X ScannedSizes)

\* calc_bin(&vertex, grid_bin_size)
CalcBinCall ==
    /\ call = NoCall
    /\ \E input \in CalcBinInputs :
          call' = [fn |-> "calc_bin", vertex |-> input[1], grid_bin_size |-> input[2],
                   out |-> CalcBin(input[1], input[2])]
    /\ UNCHANGED <<collisionVars, gameVars>>

\* calc_bin_count(grid_bin_size)
CalcBinCountCall ==
    /\ call = NoCall
    /\ \E size \in ScannedSizes :
          call' = [fn |-> "calc_bin_count", grid_bin_size |-> size,
                   out |-> CalcBinCount(size)]
    /\ UNCHANGED <<collisionVars, gameVars>>

\* Largest number of geometries handed to build_map when it is called on its
\* own.
MaxBuild == 3

\* The geometries build_map is called with, an entity's id being its place
\* in the list: the two walls of tests::build_map_2walls_some_common_bins
\* (ObjectFactory::new(1000)), the tilted box of tests::grid_hash_box, and
\* entities of the catalogue, one of them overhanging the arena's low edge.
BuildCatalogue ==
    << BoxGeometry(<<1200, 1200>>, 1000),
       BoxGeometry(<<1700, 1700>>, 1000),
       << <<1000, 2000>>, <<1770, 2200>>, <<1550, 2900>>, <<780, 2770>>, <<1000, 2000>> >>,
       Catalogue[1].geom,
       Catalogue[3].geom,
       Catalogue[4].geom,
       Catalogue[5].geom >>

\* The orders in which build_map can meet the entries of a GeomRefMap: the
\* keys of a HashMap are distinct, and its iteration order is any order.
BuildOrders ==
    {order \in UNION {[1..n -> 1..Len(BuildCatalogue)] : n \in 0..MaxBuild} :
        \A i \in 1..Len(order), j \in 1..Len(order) : i # j => order[i] # order[j]}

\* HashMap::insert(bin, {id}) in the place of entry().and_modify().or_insert():
\* the ids already in the bin are lost.
EntryOverwrite(object_map, bin, id) ==
    [b \in DOMAIN object_map \cup {bin} |-> IF b = bin THEN {id} ELSE object_map[b]]

\* build_map: object_map.entry(*bin).and_modify(|e| e.insert(*id))
\*                      .or_insert(HashSet::from_iter([*id]))
EntryInsert(object_map, bin, id) ==
    [b \in DOMAIN object_map \cup {bin} |->
        IF b \in DOMAIN object_map
        THEN IF b = bin THEN object_map[b] \cup {id} ELSE object_map[b]
        ELSE {id}]

RECURSIVE InsertBins(_, _, _)
\* build_map: `for bin in grid_bins.iter()`. The entries of distinct bins do
\* not touch each other, so the order of the HashSet's iteration is that of
\* the bin numbers here.
InsertBins(object_map, grid_bins, id) ==
    IF grid_bins = {} THEN object_map
    ELSE LET bin == CHOOSE b \in grid_bins : \A c \in grid_bins : b <= c
         IN  InsertBins(EntryInsert(object_map, bin, id), grid_bins \ {bin}, id)

\* `if let None = existing`: the test of the duplicate turned around.
IsDuplicateInverted(existing) == existing = None

\* build_map: `if let Some(_) = existing`, existing being what
\* object_index.insert(*id, grid_bins) returns: the value the key had.
IsDuplicate(existing) == existing # None

\* build_map: the body of `for geometry in geometries`, on the state
\* [object_map, object_index, panic] of the loop.
BuildStep(state, id, vertices, bin_size) ==
    LET grid_bins == GridHash(vertices, bin_size)
        existing == MapGet(state.object_index, id)
    IN  [object_map |-> InsertBins(state.object_map, grid_bins, id),
         object_index |-> [e \in DOMAIN state.object_index \cup {id} |->
                              IF e = id THEN grid_bins ELSE state.object_index[e]],
         panic |-> IsDuplicate(existing)]

RECURSIVE BuildLoop(_, _, _, _)
\* build_map: the loop from entry i of the iteration on; a panic ends it.
BuildLoop(state, order, i, bin_size) ==
    IF state.panic \/ i > Len(order) THEN state
    ELSE BuildLoop(Value(BuildStep(state, order[i], BuildCatalogue[order[i]], bin_size)),
                   order, i + 1, bin_size)

\* build_map(geometries, grid_bin_size), the entries of `geometries` met in
\* the order `order`.
BuildMapLoop(order, bin_size) ==
    BuildLoop([object_map |-> << >>, object_index |-> << >>, panic |-> FALSE],
              order, 1, bin_size)

\* build_map(&geometries, grid_bin_size)
BuildMapCall ==
    /\ call = NoCall
    /\ \E order \in BuildOrders : \E size \in BinSizes :
          call' = [fn |-> "build_map", order |-> order, grid_bin_size |-> size,
                   out |-> BuildMapLoop(order, size)]
    /\ UNCHANGED <<collisionVars, gameVars>>

\* Largest endpoint of the ranges check_overlap is called with.
MaxRange == 6

\* The ranges check_overlap is called with: (min, max) with min <= max, as
\* calc_projected_range returns them.
Ranges == {r \in (0..MaxRange) \X (0..MaxRange) : r[1] <= r[2]}

\* check_overlap(range1, range2)
CheckOverlapCall ==
    /\ call = NoCall
    /\ \E range1 \in Ranges, range2 \in Ranges :
          call' = [fn |-> "check_overlap", range1 |-> range1, range2 |-> range2,
                   out |-> CheckOverlap(range1, range2)]
    /\ UNCHANGED <<collisionVars, gameVars>>

\* Largest coordinate of the rectangles is_collision is called with.
MaxCoord == 3

\* The box update_geometry builds for rotation 0.0 on the corners
\* (x1, y1) and (x2, y2): a closed loop of five vertices.
Rectangle(x1, y1, x2, y2) ==
    << <<x1, y1>>, <<x2, y1>>, <<x2, y2>>, <<x1, y2>>, <<x1, y1>> >>

\* The axis-aligned rectangles of positive width and height with corners
\* in 0..MaxCoord.
Rectangles ==
    {Rectangle(c[1], c[2], c[3], c[4]) :
        c \in {d \in (0..MaxCoord) \X (0..MaxCoord) \X (0..MaxCoord) \X (0..MaxCoord) :
                  d[1] < d[3] /\ d[2] < d[4]}}

\* The polygons of tests::colliding_simple1, colliding_simple2 and
\* colliding_nearmiss, and the cannon and the baddie of the catalogue.
TestPolygons ==
    { Rectangle(1, 1, 3, 3), Rectangle(2, 2, 4, 4), Rectangle(4, 4, 6, 6),
      << <<2260, 2628>>, <<3232, 2400>>, <<3460, 3372>>, <<2488, 3600>>, <<2260, 2628>> >>,
      << <<3098, 3654>>, <<4006, 3238>>, <<4422, 4146>>, <<3514, 4562>>, <<3098, 3654>> >>,
      Catalogue[10].geom, Catalogue[11].geom }

\* Closed polygons that are not boxes: two triangles and a segment.
OtherPolygons ==
    { << <<0, 0>>, <<3, 0>>, <<0, 3>>, <<0, 0>> >>,
      << <<3, 3>>, <<3, 1>>, <<1, 3>>, <<3, 3>> >>,
      << <<1, 1>>, <<2, 2>>, <<1, 1>> >> }

\* Vertex lists whose first vertex is not their last.
OpenPolygons ==
    { << <<1, 1>>, <<3, 1>>, <<3, 3>>, <<1, 3>> >>,
      << <<1, 1>>, <<3, 1>>, <<3, 3>>, <<1, 3>>, <<1, 2>> >>,
      << <<0, 0>>, <<2, 0>>, <<0, 0>>, <<2, 0>>, <<2, 2>> >> }

\* is_collision(&poly1, &poly2)
IsCollisionCall ==
    /\ call = NoCall
    /\ \E poly1 \in Rectangles \cup TestPolygons \cup OtherPolygons \cup OpenPolygons,
          poly2 \in Rectangles \cup TestPolygons \cup OtherPolygons \cup OpenPolygons :
          call' = [fn |-> "is_collision", poly1 |-> poly1, poly2 |-> poly2,
                   out |-> IsCollisionAsserted(poly1, poly2)]
    /\ UNCHANGED <<collisionVars, gameVars>>

\* calc_bin_size(&walls, &baddies, &bullets, &cannons) on the geometry of a
\* world, `rep` being the entries `.iter().take(1)` yields.
CalcBinSizeCall ==
    /\ call = NoCall
    /\ \E world \in Worlds : \E rep \in Representatives(DestructureGeom(world)) :
          \E size \in CalcBinSizesFor(DestructureGeom(world), rep) :
              call' = [fn |-> "calc_bin_size", world |-> world, rep |-> rep, out |-> size]
    /\ UNCHANGED <<collisionVars, gameVars>>

\* A move_with_wrap that does not wrap.
MoveWithWrapNoWrap(start, amt, bound) == start + amt

\* fn move_with_wrap(start, amt, bound) -> i32
MoveWithWrap(start, amt, bound) ==
    IF start + amt < 0 THEN bound + amt + start
    ELSE IF start + amt < bound THEN start + amt
    ELSE start + amt - bound

\* Largest of the small bounds move_with_wrap is called with on its own.
MaxWrapBound == 4

\* The arguments of move_with_wrap: every start of a small range with every
\* amount up to one past the range's length, and for the arena the starts
\* and steps of tests::baddies_wrap_at_screen_edge_lr and _rl with the
\* extreme ones.
WrapInputs ==
    {<<start, amt, bound>> : start \in 0..(MaxWrapBound - 1),
                             amt \in -(MaxWrapBound + 1)..(MaxWrapBound + 1),
                             bound \in 1..MaxWrapBound}
    \cup {<<start, amt, GRID_WIDTH>> :
             start \in {0, 10, GRID_WIDTH - 20, GRID_WIDTH - 10, GRID_WIDTH - 1},
             amt \in {-GRID_WIDTH, 1 - GRID_WIDTH, -20, -10, 0, 10, 20,
                      GRID_WIDTH - 1, GRID_WIDTH}}

\* move_with_wrap(start, amt, bound) with 0 <= start < bound.
MoveWithWrapCall ==
    /\ call = NoCall
    /\ \E input \in WrapInputs :
          /\ input[1] < input[3]
          /\ call' = [fn |-> "move_with_wrap", start |-> input[1], amt |-> input[2],
                      bound |-> input[3],
                      out |-> MoveWithWrap(input[1], input[2], input[3])]
    /\ UNCHANGED <<collisionVars, gameVars>>

\* ------------------------------------------------------------------------
\* helpers.rs: remove_multiple. Indices are usize, counted from 0; the
\* element at index i of a Vec is the (i + 1)-th of the sequence.
\* ------------------------------------------------------------------------

\* Largest length of the vector and of the list of indices.
MaxVec == 4

\* Vec::swap_remove(index): the last element takes the place of the removed
\* one.
SwapRemove(vector, index) ==
    [k \in 1..(Len(vector) - 1) |->
        IF k = index + 1 THEN vector[Len(vector)] ELSE vector[k]]

\* The inner loop: the first j_tr with to_remove[j_tr] == index_last, if any.
ToSwap(to_remove, index_last) ==
    LET found == {j \in 1..Len(to_remove) : to_remove[j] = index_last}
    IN  IF found = {} THEN None
        ELSE Some(CHOOSE j \in found : \A other \in found : j <= other)

\* One pass of the outer loop, for i_tr (counted from 1): index_last is
\* vector.len() - 1 and does not exist for an empty vector, where the
\* subtraction overflows or, wrapped, swap_remove panics; assert!(tr <=
\* index_last); swap_remove; the entry found by the inner loop is set to tr.
RemoveStep(state, i_tr) ==
    IF state.panic THEN state
    ELSE LET vector == state.vector
             to_remove == state.to_remove
             index_last == Len(vector) - 1
             tr == to_remove[i_tr]
             to_swap == ToSwap(to_remove, index_last)
         IN  IF Len(vector) = 0 \/ ~(tr <= index_last)
             THEN [state EXCEPT !.panic = TRUE]
             ELSE [panic |-> FALSE,
                   vector |-> SwapRemove(vector, tr),
                   to_remove |-> IF to_swap = None THEN to_remove
                                 ELSE [to_remove EXCEPT ![to_swap[1]] = tr]]

RECURSIVE RemoveLoop(_, _, _)
\* for i_tr in 0..to_remove.len(), from the pass `i_tr` on.
RemoveLoop(state, i_tr, passes) ==
    IF i_tr > passes THEN state
    ELSE RemoveLoop(RemoveStep(state, i_tr), i_tr + 1, passes)

\* pub fn remove_multiple(vector, to_remove): whether it panics, and the
\* vector it leaves.
RemoveMultiple(vector, to_remove) ==
    RemoveLoop([panic |-> FALSE, vector |-> vector, to_remove |-> to_remove],
               1, Len(to_remove))

\* The vectors remove_multiple is called with: the element at index i is i,
\* so that an element tells where it was.
Vectors == {[k \in 1..n |-> k - 1] : n \in 0..MaxVec}

\* The lists of indices: any indices up to one past the longest vector,
\* repeated or not, in any order.
IndexLists == UNION {[1..n -> 0..MaxVec] : n \in 0..MaxVec}

\* remove_multiple(&mut vector, &to_remove)
RemoveMultipleCall ==
    /\ call = NoCall
    /\ \E vector \in Vectors : \E to_remove \in IndexLists :
          call' = [fn |-> "remove_multiple", vector |-> vector, to_remove |-> to_remove,
                   out |-> RemoveMultiple(vector, to_remove)]
    /\ UNCHANGED <<collisionVars, gameVars>>

\* ------------------------------------------------------------------------
\* entity.rs: generate_id and Entity::new
\* ------------------------------------------------------------------------

\* The width of EntityId's u32 in the model, in bits.
IdBits == 5

\* A generate_id that hands out the counter without advancing it.
GenerateIdStuck(counter) == {[panic |-> FALSE, counter |-> counter]}

\* fn generate_id() on a counter: `ID_COUNTER += 1; id = ID_COUNTER`. The
\* outcomes are the counter afterwards, which is the id; at the largest u32
\* the addition panics in a build with overflow checks and wraps to 0 in one
\* without.
GenerateId(counter) ==
    IF counter + 1 < 2^IdBits
    THEN {[panic |-> FALSE, counter |-> counter + 1]}
    ELSE {[panic |-> TRUE, counter |-> counter], [panic |-> FALSE, counter |-> 0]}

\* Entity::new(kind), called one more time in the process: the ids made so
\* far are kept in order. No call is made after a panic, nor after the call
\* that finds the counter at the largest u32.
EntityNewCall ==
    /\ \/ call = NoCall
       \/ call.fn = "Entity::new" /\ ~call.panic /\ Len(call.ids) < 2^IdBits
    /\ \E outcome \in GenerateId(ID_COUNTER) :
          LET ids == IF call = NoCall THEN << >> ELSE call.ids
          IN  /\ ID_COUNTER' = outcome.counter
              /\ call' = [fn |-> "Entity::new", panic |-> outcome.panic,
                          ids |-> IF outcome.panic THEN ids
                                  ELSE Append(ids, outcome.counter)]
    /\ UNCHANGED <<collisionVars, entities, shapes, geometries, healths, removal,
                   level_state, tick, prev_fire_time, fired>>

NextFn ==
    \/ CalcBinCall
    \/ CalcBinCountCall
    \/ BuildMapCall
    \/ CheckOverlapCall
    \/ IsCollisionCall
    \/ CalcBinSizeCall
    \/ MoveWithWrapCall
    \/ RemoveMultipleCall
    \/ EntityNewCall

SpecFn == InitFn /\ [][NextFn]_vars

\* ------------------------------------------------------------------------
\* world.rs and shape.rs: the game objects
\* ------------------------------------------------------------------------

\* world.rs: pub const PLAYER_HEALTH_MAX: i32 = 3;
PLAYER_HEALTH_MAX == 3

\* world.rs: const BADDIE_SIZE: f32 = 0.75, in hundredths.
BADDIE_SIZE == 75

\* world.rs: const WALL_SIZE: f32 = 1.0, in hundredths.
WALL_SIZE == 100

\* world.rs: const BULLET_SIZE: f32 = 0.1, in hundredths.
BULLET_SIZE == 10

\* world.rs: const CANNON_SIZE: f32 = 0.2, in hundredths.
CANNON_SIZE == 20

\* world.rs: const BULLET_SPEED: i32 = 1000;
BULLET_SPEED == 1000

\* ObjectFactory::new(1000), the factory of the tests of game_logic.rs.
BASE_SIZE == 1000

\* ObjectFactory::calc_size: (base_size as f32 * obj_size) as u32.
CalcSize(obj_size) == (BASE_SIZE * obj_size) \div 100

\* geometry.rs: pub fn scale(v, a)
Scale(v, a) == <<a * v[1], a * v[2]>>

\* Shape::new(center, size, vel, rotation, angular_velocity). The rotation
\* is in degrees (45 for the cannon's PI / 4); the angular velocity is 0.0
\* for every shape of the model, as in the tests of game_logic.rs.
NewShape(center, size, vel, rotation, angular_velocity) ==
    [center |-> center, center_prev |-> center, size |-> size, vel |-> vel,
     rotation |-> rotation, rotation_prev |-> rotation,
     angular_velocity |-> angular_velocity]

\* update_geometry on a shape turned by PI / 4: the distance of the corners
\* from the centre, trunc(2 * delta * 0.70710677).
DiamondHalf(delta) == (2 * delta * 70711) \div 100000

\* world.rs: update_geometry(box_geometry, box_state)
UpdateGeometry(box_state) ==
    IF box_state.rotation = 0
    THEN BoxGeometry(box_state.center, box_state.size)
    ELSE CannonGeometry(box_state.center, DiamondHalf(box_state.size \div 2))

\* ObjectFactory::make_cannon(center)
MakeCannon(center) ==
    [kind |-> "Cannon", shape |-> NewShape(center, CalcSize(CANNON_SIZE), <<0, 0>>, 45, 0),
     health |-> Some(PLAYER_HEALTH_MAX)]

\* ObjectFactory::make_bullet(center, direction)
MakeBullet(center, direction) ==
    [kind |-> "Bullet",
     shape |-> NewShape(center, CalcSize(BULLET_SIZE), Scale(direction, BULLET_SPEED), 0, 0),
     health |-> None]

\* ObjectFactory::make_baddie(start, vel, 0.0)
MakeBaddie(start, vel) ==
    [kind |-> "Baddie", shape |-> NewShape(start, CalcSize(BADDIE_SIZE), vel, 0, 0),
     health |-> None]

\* ObjectFactory::make_wall(center)
MakeWall(center) ==
    [kind |-> "Wall", shape |-> NewShape(center, CalcSize(WALL_SIZE), <<0, 0>>, 0, 0),
     health |-> None]

\* Largest number of game objects handed to create_world.
MaxObjects == 3

\* The game objects the worlds are made of, an object's id being its place
\* in the list:
\*   1..4  tests::bullet_meets_enemy_both_destroyed: the hit baddie, the
\*         missed baddie, the hitting bullet, the missing bullet
\*   5     a baddie moving right, towards the walls 6 and 7
\*   6, 7  two walls one above the other, as build_level stacks them: the
\*         baddie 5 reaches wall 6 with its upper half, wall 7 with its lower
\*   8     tests::bullet_destroyed_at_screen_edge: its bullet
\*   9     the cannon where the levels put it, at the arena's centre
\*   10    tests::bullet_destroyed_by_wall: its bullet, flying at wall 6
\*   11    tests::baddie_destroyed_by_cannon: its baddie
\*   12    tests::gameover_at_zero_health: its cannon, made with health 0
\*   13    a second baddie touching the cannon 9, from the other side
\*   14    tests::baddies_wrap_at_screen_edge_lr: its baddie
\*   15    tests::baddies_wrap_at_screen_edge_rl: its baddie
GameCatalogue ==
    << MakeBaddie(<<5500, 5000>>, <<0, 0>>),
       MakeBaddie(<<5000, 7000>>, <<0, 0>>),
       MakeBullet(<<5115, 5000>>, <<1, 0>>),
       MakeBullet(<<4000, 4500>>, <<0, 1>>),
       MakeBaddie(<<1000, 1500>>, <<1000, 0>>),
       MakeWall(<<1900, 1000>>),
       MakeWall(<<1900, 2000>>),
       MakeBullet(<<GRID_WIDTH - 10, 100>>, <<1, 0>>),
       MakeCannon(<<GRID_WIDTH \div 2, GRID_HEIGHT \div 2>>),
       MakeBullet(<<1340, 1000>>, <<1, 0>>),
       MakeBaddie(<<1000, 1000>>, <<0, 0>>),
       [MakeCannon(<<1000, 1000>>) EXCEPT !.health = Some(0)],
       MakeBaddie(<<4500, 5000>>, <<0, 0>>),
       MakeBaddie(<<GRID_WIDTH - 10, 1000>>, <<1000, 0>>),
       MakeBaddie(<<10, 1000>>, <<-1000, 0>>) >>

\* The level data create_world is called with: up to MaxObjects objects,
\* one cannon at most (levels.rs makes one per level).
GameWorlds ==
    {w \in SUBSET (1..Len(GameCatalogue)) :
        /\ Cardinality(w) <= MaxObjects
        /\ Cardinality({id \in w : GameCatalogue[id].kind = "Cannon"}) <= 1}

\* world.rs: create_world(level_data), its four collections.
CreateWorld(level_data) ==
    [entities |-> [id \in level_data |-> GameCatalogue[id].kind],
     shapes |-> [id \in level_data |-> GameCatalogue[id].shape],
     geometries |-> [id \in level_data |-> UpdateGeometry(GameCatalogue[id].shape)],
     healths |-> [id \in {e \in level_data : GameCatalogue[e].health # None} |->
                     GameCatalogue[id].health[1]]]

\* world.rs: destructure_geom(entities, geometries): the GeomRefMaps by
\* kind.
DestructureGeomWorld(ents, geoms) ==
    [kind \in EntityKinds |->
        [id \in {e \in DOMAIN ents : ents[e] = kind /\ e \in DOMAIN geoms} |-> geoms[id]]]

\* A map without the keys of `ids` (world::remove on one collection).
RemoveKeys(map, ids) == [id \in DOMAIN map \ ids |-> map[id]]

\* ------------------------------------------------------------------------
\* game_logic.rs: update_world
\* ------------------------------------------------------------------------

\* Largest number of update_world calls of a game.
MaxTicks == 2

\* The frame times update_world is called with, in ms: those of the tests.
FrameTimes == {20, 100}

\* Shape::set_center, then Shape::rotate(dt_s): the angular velocity being
\* 0.0, the rotation stays what it is.
SetCenter(box_state, new_center) ==
    [box_state EXCEPT !.center_prev = box_state.center,
                      !.center = new_center,
                      !.rotation_prev = box_state.rotation]

\* fn update_pos(box_state, dt, wrap)
UpdatePos(box_state, dt, wrap) ==
    LET cx == box_state.center[1]
        cy == box_state.center[2]
        step_x == TruncDiv(box_state.vel[1] * dt, 1000)
        step_y == TruncDiv(box_state.vel[2] * dt, 1000)
        new_center == IF wrap
                      THEN <<MoveWithWrap(cx, step_x, GRID_WIDTH),
                             MoveWithWrap(cy, step_y, GRID_HEIGHT)>>
                      ELSE <<cx + step_x, cy + step_y>>
    IN  SetCenter(box_state, new_center)

\* fn update_positions(entities, shapes, dt): baddies and the cannon wrap,
\* bullets and walls do not.
UpdatePositions(ents, shps, dt) ==
    [id \in DOMAIN shps |->
        IF id \in DOMAIN ents
        THEN UpdatePos(shps[id], dt, ents[id] \in {"Baddie", "Cannon"})
        ELSE shps[id]]

\* fn update_geometries(shapes, geometries)
UpdateGeometries(shps) == [id \in DOMAIN shps |-> UpdateGeometry(shps[id])]

\* An is_inside_world that forgets the far edges of the arena.
IsInsideWorldNearEdges(point) == point[1] > 0 /\ point[2] > 0

\* fn is_inside_world(point) -> bool
IsInsideWorld(point) ==
    (point[1] > 0 /\ point[1] <= GRID_WIDTH) /\ (point[2] > 0 /\ point[2] <= GRID_HEIGHT)

\* fn handle_bullet_misses: the ids it removes.
BulletMisses(ents, shps) ==
    {b \in DOMAIN ents : ents[b] = "Bullet" /\ ~IsInsideWorld(shps[b].center)}

\* baddie_wall_handler: Shape::move_back, then Shape::reverse.
MoveBackAndReverse(baddie_shape) ==
    [baddie_shape EXCEPT !.center = baddie_shape.center_prev,
                         !.rotation = baddie_shape.rotation_prev,
                         !.vel = <<-baddie_shape.vel[1], -baddie_shape.vel[2]>>,
                         !.angular_velocity = -baddie_shape.angular_velocity]

\* A bullet_wall_handler that destroys the wall and keeps the bullet.
BulletWallHandlerWall(rem, bullet_id, wall_id) ==
    [rem EXCEPT !.to_remove = @ \cup {wall_id}]

\* bullet_wall_handler(bullet_id, _wall_id)
BulletWallHandler(rem, bullet_id, wall_id) ==
    [rem EXCEPT !.to_remove = @ \cup {bullet_id}]

\* A baddie_cannon_handler that sets the health instead of decreasing it.
BaddieCannonHandlerOnce(rem, hlths, baddie_id, cannon_id) ==
    [removal |-> [rem EXCEPT !.to_remove_3 = @ \cup {baddie_id}],
     healths |-> [hlths EXCEPT ![cannon_id] = PLAYER_HEALTH_MAX - 1]]

\* baddie_cannon_handler(baddie_id, cannon_id): the removal collections and
\* the healths after the call.
BaddieCannonHandler(rem, hlths, baddie_id, cannon_id) ==
    [removal |-> [rem EXCEPT !.to_remove_3 = @ \cup {baddie_id}],
     healths |-> [hlths EXCEPT ![cannon_id] = @ - 1]]

\* A bullet_baddie_handler that forgets the baddie.
BulletBaddieHandlerBulletOnly(rem, bullet_id, baddie_id) ==
    [rem EXCEPT !.to_remove_2 = @ \cup {bullet_id}]

\* bullet_baddie_handler(bullet_id, baddie_id)
BulletBaddieHandler(rem, bullet_id, baddie_id) ==
    [rem EXCEPT !.to_remove_2 = @ \cup {bullet_id, baddie_id}]

\* fn player_health(game_objects) -> Option<i32>
PlayerHealth(ents, hlths) ==
    IF \E e \in DOMAIN ents : ents[e] = "Cannon"
    THEN Some(hlths[CHOOSE e \in DOMAIN ents : ents[e] = "Cannon"])
    ELSE None

\* fn level_complete(world) -> bool
LevelComplete(ents) == {e \in DOMAIN ents : ents[e] = "Baddie"} = {}

\* A LevelState that looks at the baddies before the player's health.
LevelStateOfCompleteFirst(ents, hlths) ==
    IF LevelComplete(ents) THEN "Complete"
    ELSE IF PlayerHealth(ents, hlths) = Some(0) THEN "GameOver"
    ELSE "InProgress"

\* update_world: the LevelState it returns.
LevelStateOf(ents, hlths) ==
    IF PlayerHealth(ents, hlths) = Some(0) THEN "GameOver"
    ELSE IF LevelComplete(ents) THEN "Complete"
    ELSE "InProgress"

\* The state after create_world on some level data; no collision system
\* exists yet.
InitWorld(worlds) ==
    /\ NoSystem
    /\ call = NoCall
    /\ \E level_data \in worlds :
          /\ entities = CreateWorld(level_data).entities
          /\ shapes = CreateWorld(level_data).shapes
          /\ geometries = CreateWorld(level_data).geometries
          /\ healths = CreateWorld(level_data).healths
    /\ removal = NoRemoval
    /\ level_state = "none"
    /\ tick = [n |-> 0, dt |-> 0, entities |-> entities, shapes |-> shapes,
               healths |-> healths]
    /\ ID_COUNTER = Len(GameCatalogue)
    /\ prev_fire_time = 0
    /\ fired = << >>

\* A game on any of the worlds.
InitGame == InitWorld(GameWorlds)

\* try_fire: const RELOAD_TIME: Duration = Duration::from_millis(1000);
RELOAD_TIME == 1000

\* Largest number of try_fire calls of a game.
MaxFire == 3

\* The instants try_fire is called at, in ms; init_level sets the instant of
\* the last shot to one second before the level starts, which is instant 0
\* here, so the level starts at 1000.
Instants == {1000, 1001, 2001, 2002}

\* geometry.rs: pub enum Direction
Directions == {"Up", "Down", "Left", "Right"}

\* The directions play_level fires in.
FireDirections == {"Left", "Right"}

\* geometry.rs: pub fn direction_vector(direction) -> Vector
DirectionVector(direction) ==
    CASE direction = "Up" -> <<0, -1>>
      [] direction = "Down" -> <<0, 1>>
      [] direction = "Left" -> <<-1, 0>>
      [] direction = "Right" -> <<1, 0>>

\* fn get_cannon_pos(game_objects): the centre of the cannon, which has to
\* exist.
GetCannonPos(ents, shps) == shps[CHOOSE e \in DOMAIN ents : ents[e] = "Cannon"].center

\* world.rs: add(game_objects, game_obj), the object getting the id `id`.
Add(world, id, game_obj) ==
    [entities |-> (id :> game_obj.kind) @@ world.entities,
     shapes |-> (id :> game_obj.shape) @@ world.shapes,
     geometries |-> (id :> UpdateGeometry(game_obj.shape)) @@ world.geometries,
     healths |-> IF game_obj.health = None THEN world.healths
                 ELSE (id :> game_obj.health[1]) @@ world.healths]

\* A try_fire that fires as soon as the reload time has passed.
TryFireAtReloadTime(now, prev, world, direction, id) ==
    IF now >= prev + RELOAD_TIME
    THEN [world |-> Add(world, id, MakeBullet(GetCannonPos(world.entities, world.shapes),
                                              DirectionVector(direction))),
          out |-> now]
    ELSE [world |-> world, out |-> prev]

\* pub fn try_fire(now, prev, game_objects, direction, obj_factory) ->
\* Instant, in a world with a cannon: the world afterwards and the instant
\* returned; `id` is the id Entity::new gives the bullet.
TryFireOn(now, prev, world, direction, id) ==
    IF now > prev + RELOAD_TIME
    THEN [world |-> Add(world, id, MakeBullet(GetCannonPos(world.entities, world.shapes),
                                              DirectionVector(direction))),
          out |-> now]
    ELSE [world |-> world, out |-> prev]

\* The four collections of the world as they are.
TheWorld ==
    [entities |-> entities, shapes |-> shapes, geometries |-> geometries,
     healths |-> healths]

\* The number of try_fire calls of the game so far.
FireCalls == IF call = NoCall THEN 0 ELSE call.n

\* play_level, a key event after update_world has returned InProgress:
\* prev_fire_time = try_fire(current_time, prev_fire_time, &mut world,
\* direction, &obj_factory). Without a cannon get_cannon_pos panics. The id
\* of the bullet comes from generate_id, which is called only when the
\* cannon fires. The call, its number in the game and the world it was
\* given are kept in `call`.
TryFire ==
    /\ pc \in {"idle", "play"}
    /\ tick.n > 0
    /\ level_state = "InProgress"
    /\ FireCalls < MaxFire
    /\ \E now \in Instants : \E direction \in FireDirections :
          IF \A e \in DOMAIN entities : entities[e] # "Cannon"
          THEN /\ pc' = "panic"
               /\ call' = [fn |-> "try_fire", n |-> FireCalls + 1, now |-> now,
                           prev |-> prev_fire_time,
                           direction |-> direction, world |-> TheWorld]
               /\ UNCHANGED <<entities, shapes, geometries, healths, fireVars>>
          ELSE \E made \in GenerateId(ID_COUNTER) :
                  LET result == TryFireOn(now, prev_fire_time, TheWorld, direction,
                                          made.counter)
                      fires == result.world # TheWorld
                  IN  /\ call' = [fn |-> "try_fire", n |-> FireCalls + 1, now |-> now,
                           prev |-> prev_fire_time,
                                  direction |-> direction, world |-> TheWorld]
                      /\ IF fires /\ made.panic
                         THEN /\ pc' = "panic"
                              /\ UNCHANGED <<entities, shapes, geometries, healths,
                                             fireVars>>
                         ELSE /\ pc' = "play"
                              /\ entities' = result.world.entities
                              /\ shapes' = result.world.shapes
                              /\ geometries' = result.world.geometries
                              /\ healths' = result.world.healths
                              /\ ID_COUNTER' = IF fires THEN made.counter ELSE ID_COUNTER
                              /\ prev_fire_time' = result.out
                              /\ fired' = IF fires THEN Append(fired, <<made.counter, now>>)
                                          ELSE fired
    /\ UNCHANGED <<new_geoms, spatial_maps, grid_bin_size, geom_maps, parts, collisions,
                   current, calls, removal, level_state, tick>>

\* update_world(world, dt), up to the return of detect_collisions in
\* CollisionSystem::process: update_positions, update_geometries,
\* handle_bullet_misses, destructure_geom, CollisionSystem::new (with any of
\* the bin sizes calc_bin_size can return) and the detection over all bins.
UpdateWorldBegin ==
    /\ pc \in {"idle", "play"}
    /\ tick.n < MaxTicks
    /\ \E dt \in FrameTimes :
          LET moved == UpdatePositions(entities, shapes, dt)
              missed == BulletMisses(entities, moved)
              ents == RemoveKeys(entities, missed)
              geoms == RemoveKeys(UpdateGeometries(moved), missed)
              by_kind == DestructureGeomWorld(ents, geoms)
          IN  /\ tick' = [n |-> tick.n + 1, dt |-> dt, entities |-> entities,
                          shapes |-> shapes, healths |-> healths]
              /\ entities' = ents
              /\ shapes' = RemoveKeys(moved, missed)
              /\ geometries' = geoms
              /\ healths' = RemoveKeys(healths, missed)
              /\ new_geoms' = by_kind
              /\ geom_maps' = by_kind
              /\ \E size \in CalcBinSizes(by_kind) :
                    /\ grid_bin_size' = size
                    /\ spatial_maps' = NewSpatialMaps(by_kind, size)
                    /\ collisions' = FoldRange(Ok(InitCollisions), NewSpatialMaps(by_kind, size),
                                               by_kind, 0, CalcBinCount(size)).acc
    /\ pc' = "dispatch"
    /\ current' = "none"
    /\ calls' = << >>
    /\ removal' = NoRemoval
    /\ UNCHANGED <<parts, level_state, fnVars, fireVars>>

\* process, inside update_world: the handler of `kind` is called with the
\* next pair of the inner loop.
HandleCollision(kind, pair) ==
    /\ pc = "dispatch"
    /\ tick.n > 0
    /\ BagIn(pair, collisions[kind])
    /\ MayHandle(kind, current, collisions)
    /\ current' = kind
    /\ collisions' = [collisions EXCEPT ![kind] = @ (-) SetToBag({pair})]
    /\ calls' = Append(calls, <<kind, pair[1], pair[2]>>)
    /\ shapes' = IF kind = "BaddieWall"
                 THEN [shapes EXCEPT ![pair[1]] = MoveBackAndReverse(@)]
                 ELSE shapes
    /\ removal' = CASE kind = "BulletWall" -> BulletWallHandler(removal, pair[1], pair[2])
                    [] kind = "BulletBaddie" -> BulletBaddieHandler(removal, pair[1], pair[2])
                    [] kind = "BaddieCannon" ->
                           BaddieCannonHandler(removal, healths, pair[1], pair[2]).removal
                    [] OTHER -> removal
    /\ healths' = IF kind = "BaddieCannon"
                  THEN BaddieCannonHandler(removal, healths, pair[1], pair[2]).healths
                  ELSE healths
    /\ UNCHANGED <<new_geoms, spatial_maps, grid_bin_size, pc, geom_maps, parts,
                   entities, geometries, level_state, tick, fnVars, fireVars>>

\* update_world, from the return of process on: the union of the removal
\* collections, world::remove for each id, the second update_geometries and
\* the LevelState.
UpdateWorldEnd ==
    /\ pc = "dispatch"
    /\ tick.n > 0
    /\ \A kind \in CollisionKinds : collisions[kind] = EmptyBag
    /\ LET gone == removal.to_remove \cup removal.to_remove_2 \cup removal.to_remove_3
       IN  /\ entities' = RemoveKeys(entities, gone)
           /\ shapes' = RemoveKeys(shapes, gone)
           /\ geometries' = UpdateGeometries(RemoveKeys(shapes, gone))
           /\ healths' = RemoveKeys(healths, gone)
           /\ level_state' = LevelStateOf(RemoveKeys(entities, gone), RemoveKeys(healths, gone))
    /\ pc' = "idle"
    /\ UNCHANGED <<new_geoms, spatial_maps, grid_bin_size, geom_maps, parts,
                   collisions, current, calls, removal, tick, fnVars, fireVars>>

NextGame ==
    \/ UpdateWorldBegin
    \/ \E kind \in CollisionKinds : \E pair \in BagToSet(collisions[kind]) :
          HandleCollision(kind, pair)
    \/ UpdateWorldEnd

SpecGame == InitGame /\ [][NextGame]_vars

\* The worlds of the games in which the cannon is fired: the baddie 2,
\* which nothing reaches, keeps the level in progress; with it the cannon
\* alone, the cannon and a baddie touching it, the cannon and the baddie and
\* walls of the bounce, and no cannon at all.
FireWorlds == {{2, 9}, {1, 2, 9}, {2, 5, 6, 9}, {2}}

\* play_level on such a world: update_world, then the key events.
InitFire == InitWorld(FireWorlds)

NextFire ==
    \/ NextGame
    \/ TryFire

SpecFire == InitFire /\ [][NextFire]_vars

\* ------------------------------------------------------------------------
\* What the claims speak of
\* ------------------------------------------------------------------------

\* The entity kind whose ids a category's handler receives first.
LeftKind(kind) == IF kind \in {"BaddieWall", "BaddieCannon"} THEN "Baddie" ELSE "Bullet"

\* The entity kind whose ids a category's handler receives second.
RightKind(kind) ==
    CASE kind = "BaddieWall"   -> "Wall"
      [] kind = "BulletWall"   -> "Wall"
      [] kind = "BulletBaddie" -> "Baddie"
      [] kind = "BaddieCannon" -> "Cannon"

\* The bins process scans.
Scanned(bin) == 0 <= bin /\ bin < CalcBinCount(grid_bin_size)

\* The scanned bins in which the spatial maps hold both l, as a left
\* entity of the category, and r, as a right one.
SharedBins(kind, l, r) ==
    {bin \in DOMAIN spatial_maps[LeftKind(kind)] \cap DOMAIN spatial_maps[RightKind(kind)] :
        /\ Scanned(bin)
        /\ l \in spatial_maps[LeftKind(kind)][bin]
        /\ r \in spatial_maps[RightKind(kind)][bin]}

\* The ids found in a spatial map.
IdsIn(spatial_map) == UNION {spatial_map[bin] : bin \in DOMAIN spatial_map}

\* The pairs of a category that share a scanned bin.
Candidates(kind) ==
    {c \in IdsIn(spatial_maps[LeftKind(kind)]) \X IdsIn(spatial_maps[RightKind(kind)]) :
        SharedBins(kind, c[1], c[2]) # {}}

\* Both geometries of a pair were handed to process, and they collide.
Collide(kind, l, r) ==
    /\ l \in DOMAIN geom_maps[LeftKind(kind)]
    /\ r \in DOMAIN geom_maps[RightKind(kind)]
    /\ IsCollision(geom_maps[LeftKind(kind)][l], geom_maps[RightKind(kind)][r])

\* The pairs of a category a process call is to report: those that share
\* a scanned bin with a bin in lo..hi-1 and collide.
CollidingIn(kind, lo, hi) ==
    {c \in Candidates(kind) :
        /\ \E bin \in SharedBins(kind, c[1], c[2]) : lo <= bin /\ bin < hi
        /\ Collide(kind, c[1], c[2])}

Colliding(kind) == CollidingIn(kind, 0, CalcBinCount(grid_bin_size))

\* The handler calls of a category made so far, as pairs.
Called(kind) == {<<calls[i][2], calls[i][3]>> : i \in {j \in 1..Len(calls) : calls[j][1] = kind}}

\* How many calls of a category were made with a pair.
TimesCalled(kind, pair) ==
    Cardinality({i \in 1..Len(calls) : calls[i] = <<kind, pair[1], pair[2]>>})

\* ------------------------------------------------------------------------
\* Claims
\* ------------------------------------------------------------------------

\* C1: when process returns, the handler of every category has been called
\* exactly once for every pair detected in the category and for no other
\* pair, also when the two geometries share two or more bins.
C1_ExactlyOncePerPair ==
    /\ \A kind \in CollisionKinds : \A pair \in Called(kind) : TimesCalled(kind, pair) = 1
    /\ pc = "done" =>
          \A kind \in CollisionKinds : \A pair \in Colliding(kind) : TimesCalled(kind, pair) = 1

\* C1, its case: process has returned after a call for a pair that shares
\* at least two bins.
C1_Witness ==
    /\ pc = "done"
    /\ \E kind \in CollisionKinds : \E pair \in Called(kind) :
          Cardinality(SharedBins(kind, pair[1], pair[2])) >= 2

\* C2: every handler call is made with a pair whose geometries, as handed
\* to process, collide and whose ids share a bin of the spatial maps.
C2_OnlyCollidingPairs ==
    \A kind \in CollisionKinds : \A pair \in Called(kind) :
        /\ Collide(kind, pair[1], pair[2])
        /\ SharedBins(kind, pair[1], pair[2]) # {}

\* C2, its case: process has returned after at least one call, and a pair
\* that shares a bin without colliding was tested and not reported.
C2_Witness ==
    /\ pc = "done"
    /\ calls # << >>
    /\ \E kind \in CollisionKinds : \E c \in Candidates(kind) :
          /\ ~Collide(kind, c[1], c[2])
          /\ c \notin Called(kind)

\* C4: every handler call passes the ids in the order of its category:
\* (baddie, wall), (bullet, wall), (bullet, baddie), (baddie, cannon); the
\* first id is an id of the left category's spatial map, the second one of
\* the right category's.
C4_ArgumentOrder ==
    \A i \in 1..Len(calls) :
        LET kind == calls[i][1]
            left_id == calls[i][2]
            right_id == calls[i][3]
        IN  /\ kind = "BaddieWall" => KindOf(left_id) = "Baddie" /\ KindOf(right_id) = "Wall"
            /\ kind = "BulletWall" => KindOf(left_id) = "Bullet" /\ KindOf(right_id) = "Wall"
            /\ kind = "BulletBaddie" => KindOf(left_id) = "Bullet" /\ KindOf(right_id) = "Baddie"
            /\ kind = "BaddieCannon" => KindOf(left_id) = "Baddie" /\ KindOf(right_id) = "Cannon"
            /\ left_id \in IdsIn(spatial_maps[LeftKind(kind)])
            /\ right_id \in IdsIn(spatial_maps[RightKind(kind)])

\* C4, its case: process has returned after calls of the BaddieWall and of
\* the BulletWall handler.
C4_Witness ==
    /\ pc = "done"
    /\ Called("BaddieWall") # {}
    /\ Called("BulletWall") # {}

\* Every box handed to new has a side shorter than the bin size.
AllSmallerThanBin ==
    \A kind \in EntityKinds : \A id \in DOMAIN new_geoms[kind] :
        BoxSideLenSqr(new_geoms[kind][id]) < grid_bin_size * grid_bin_size

\* Every vertex handed to new lies inside the arena.
AllInsideArena ==
    \A kind \in EntityKinds : \A id \in DOMAIN new_geoms[kind] :
        \A i \in 1..Len(new_geoms[kind][id]) :
            LET v == new_geoms[kind][id][i]
            IN  0 <= v[1] /\ v[1] <= GRID_WIDTH /\ 0 <= v[2] /\ v[2] <= GRID_HEIGHT

\* C3: when every box is smaller than the bin size and inside the arena,
\* every colliding pair of a tracked category shares a scanned bin and has
\* been handed to its handler when process returns.
C3_NoMissedCollision ==
    (pc = "done" /\ geom_maps = new_geoms /\ AllSmallerThanBin /\ AllInsideArena) =>
        \A kind \in CollisionKinds :
            \A l \in DOMAIN geom_maps[LeftKind(kind)], r \in DOMAIN geom_maps[RightKind(kind)] :
                Collide(kind, l, r) =>
                    /\ SharedBins(kind, l, r) # {}
                    /\ <<l, r>> \in Called(kind)

\* C5: no handler is called before detect_collisions has folded and
\* reduced every bin, and from then on the pairs already handled and the
\* pairs still to handle are together the colliding pairs of the geometry
\* process was given.
C5_DetectionBeforeDispatch ==
    /\ calls # << >> =>
          /\ pc \in {"dispatch", "done"}
          /\ Len(parts) = 1
          /\ parts[1].done
          /\ parts[1].lo = 0
          /\ parts[1].hi = CalcBinCount(grid_bin_size)
    /\ pc \in {"dispatch", "done"} =>
          \A kind \in CollisionKinds :
              Called(kind) \cup BagToSet(collisions[kind]) = Colliding(kind)

\* C5, its case: a handler has been called and another pair is still to
\* be handled.
C5_Witness ==
    /\ pc = "dispatch"
    /\ calls # << >>
    /\ \E kind \in CollisionKinds : collisions[kind] # EmptyBag

\* C6: whatever the splits and the order of the folds and reductions, the
\* result of every folded piece is the set of the colliding pairs of its
\* bins, and the result of detect_collisions that of all bins.
C6_DetectionIsUnionOverBins ==
    /\ \A i \in 1..Len(parts) :
          parts[i].done =>
              \A kind \in CollisionKinds :
                  parts[i].acc[kind] = SetToBag(CollidingIn(kind, parts[i].lo, parts[i].hi))
    /\ (pc = "dispatch" /\ calls = << >>) =>
          \A kind \in CollisionKinds : collisions[kind] = SetToBag(Colliding(kind))

\* C6, its case: two workers have each folded one half of the bins, both
\* found pairs, and one pair was found by both.
C6_Witness ==
    /\ pc = "detect"
    /\ Len(parts) = 2
    /\ parts[1].done /\ parts[2].done
    /\ \E kind \in CollisionKinds :
          BagToSet(parts[1].acc[kind]) \cap BagToSet(parts[2].acc[kind]) # {}
    /\ \E kind \in CollisionKinds :
          BagToSet(parts[2].acc[kind]) \ BagToSet(parts[1].acc[kind]) # {}

\* The place of a category in the order CollisionSystem::new inserts the
\* handlers in.
InsertionRank(kind) ==
    CASE kind = "BaddieWall"   -> 1
      [] kind = "BulletBaddie" -> 2
      [] kind = "BulletWall"   -> 3
      [] kind = "BaddieCannon" -> 4

\* C7 as stated: the categories are dispatched in the insertion order of
\* the handlers: BaddieWall, BulletBaddie, BulletWall, BaddieCannon.
C7_InsertionOrder ==
    \A i \in 1..Len(calls), j \in 1..Len(calls) :
        i < j => InsertionRank(calls[i][1]) <= InsertionRank(calls[j][1])

\* C7, amended: the categories are dispatched one after another: between
\* two calls of one category's handler no other category's handler is
\* called.
C7_OneCategoryAtATime ==
    \A i \in 1..Len(calls), j \in 1..Len(calls), k \in 1..Len(calls) :
        (i < k /\ k < j /\ calls[i][1] = calls[j][1]) => calls[k][1] = calls[i][1]

\* C7, its case: process has returned after two calls of one category and
\* a call of another.
C7_Witness ==
    /\ pc = "done"
    /\ \E k1 \in CollisionKinds, k2 \in CollisionKinds :
          /\ k1 # k2
          /\ Cardinality(Called(k1)) >= 2
          /\ Called(k2) # {}

\* The ids of the spatial maps that have no entry in the geometry map
\* process was given for their kind.
MissingIds ==
    UNION {IdsIn(spatial_maps[kind]) \ DOMAIN geom_maps[kind] : kind \in EntityKinds}

\* A missing id shares a scanned bin with an entity of a category it is
\* paired with.
MissingCandidate ==
    \E kind \in CollisionKinds : \E c \in Candidates(kind) :
        c[1] \in MissingIds \/ c[2] \in MissingIds

ProbedBins ==
    {bin \in UNION {DOMAIN spatial_maps[kind] : kind \in EntityKinds}
                 \cup {0, CalcBinCount(grid_bin_size) - 1} : Scanned(bin)}

\* Accumulators C9 is checked on: the empty one and one holding a pair.
ProbedAccs == {InitCollisions, [InitCollisions EXCEPT !["BaddieWall"] = SetToBag({<<3, 1>>})]}

\* C9: for a bin that is no key of the left or of the right spatial map,
\* add_collisions does not panic and leaves the accumulator as it is.
C9_AbsentBinIsEmpty ==
    \A kind \in CollisionKinds : \A bin \in ProbedBins : \A acc \in ProbedAccs :
        (bin \notin DOMAIN spatial_maps[LeftKind(kind)]
            \/ bin \notin DOMAIN spatial_maps[RightKind(kind)]) =>
            AddCollisions(acc, kind,
                          <<spatial_maps[LeftKind(kind)], geom_maps[LeftKind(kind)]>>,
                          <<spatial_maps[RightKind(kind)], geom_maps[RightKind(kind)]>>,
                          bin) = Ok(acc)

\* C9, its case: process has returned, with handler calls made, after
\* folding a bin that is a key of a category's left map and not of its
\* right map.
C9_Witness ==
    /\ pc = "done"
    /\ calls # << >>
    /\ \E kind \in CollisionKinds : \E bin \in DOMAIN spatial_maps[LeftKind(kind)] :
          Scanned(bin) /\ bin \notin DOMAIN spatial_maps[RightKind(kind)]

\* C10 as stated: calc_bin is bx + by * (GRID_WIDTH / s), with integer
\* divisions, for every vertex handed to new and the bin size new chose.
C10_RowMajorFormula ==
    \A kind \in EntityKinds : \A id \in DOMAIN new_geoms[kind] :
        \A i \in 1..Len(new_geoms[kind][id]) :
            LET v == new_geoms[kind][id][i]
                bx == TruncDiv(v[1], grid_bin_size)
                by == TruncDiv(v[2], grid_bin_size)
            IN  CalcBin(v, grid_bin_size) = bx + by * (GRID_WIDTH \div grid_bin_size)

\* ------------------------------------------------------------------------
\* Claims on the functions called on their own
\* ------------------------------------------------------------------------

\* Floor division by a positive divisor.
FloorDiv(a, b) == a \div b

\* A vertex lies inside the arena, its edges included.
InArena(vertex) ==
    /\ 0 <= vertex[1] /\ vertex[1] <= GRID_WIDTH
    /\ 0 <= vertex[2] /\ vertex[2] <= GRID_HEIGHT

\* C11 as stated: calc_bin puts every coordinate, negative ones too, in the
\* cell floor(v / s): its result is that of the cells floor(vx / s) and
\* floor(vy / s).
C11_FloorDivision ==
    call.fn = "calc_bin" =>
        call.out = FloorDiv(call.vertex[1], call.grid_bin_size)
                   + TruncDiv(FloorDiv(call.vertex[2], call.grid_bin_size) * GRID_WIDTH,
                              call.grid_bin_size)

\* The ids build_map was called with.
BuildIds == {call.order[i] : i \in 1..Len(call.order)}

\* C12: the map and the index build_map returns mirror each other: the
\* index has the input ids as keys, index[e] is the set of the bins of e's
\* vertices ({20, 21} for the tilted box of the test with bins of 1000), e is
\* in map[b] exactly when b is in index[e], and no bin maps to the empty
\* set; they are the map and the index the systems are built on.
C12_MapMirrorsIndex ==
    call.fn = "build_map" =>
        LET object_map == call.out.object_map
            object_index == call.out.object_index
            size == call.grid_bin_size
        IN  /\ DOMAIN object_index = BuildIds
            /\ \A e \in BuildIds :
                  object_index[e] = {CalcBin(BuildCatalogue[e][k], size) : k \in 1..5}
            /\ (3 \in BuildIds /\ size = 1000) => object_index[3] = {20, 21}
            /\ \A b \in DOMAIN object_map :
                  /\ object_map[b] # {}
                  /\ object_map[b] = {e \in BuildIds : b \in object_index[e]}
            /\ \A e \in BuildIds : object_index[e] \subseteq DOMAIN object_map
            /\ object_map = BuildMap([e \in BuildIds |-> BuildCatalogue[e]], size)
            /\ object_index = BuildIndex([e \in BuildIds |-> BuildCatalogue[e]], size)

\* C12, its case: build_map has returned for the two walls of the test with
\* bins of 1000, and bin 11 holds both.
C12_Witness ==
    /\ call.fn = "build_map"
    /\ call.grid_bin_size = 1000
    /\ BuildIds = {1, 2}
    /\ call.out.object_map[11] = {1, 2}
    /\ call.out.object_index[1] = {0, 1, 10, 11}
    /\ call.out.object_index[2] = {11, 12, 21, 22}

\* C13: build_map panics exactly when the iteration meets the same id
\* twice; the keys of the GeomRefMap being distinct, it never panics.
C13_PanicIffDuplicate ==
    call.fn = "build_map" =>
        (call.out.panic <=>
            \E i \in 1..Len(call.order), j \in 1..Len(call.order) :
                i # j /\ call.order[i] = call.order[j])

\* C13, its case: build_map has returned, without a panic, for three
\* geometries of which two share a bin.
C13_Witness ==
    /\ call.fn = "build_map"
    /\ Len(call.order) = 3
    /\ ~call.out.panic
    /\ \E b \in DOMAIN call.out.object_map : Cardinality(call.out.object_map[b]) >= 2

\* C14: calc_bin_count(s) is (GRID_WIDTH / s + 1) * (GRID_HEIGHT / s + 1),
\* 121 for s = 1000, and for every bin size from 250 on the bin of a vertex
\* inside the arena, and so every key of a spatial map built on geometry
\* inside the arena, lies in 0..calc_bin_count(s)-1.
C14_BinCountCoversArena ==
    /\ call.fn = "calc_bin_count" =>
          /\ call.out = ((10000 \div call.grid_bin_size) + 1) * ((10000 \div call.grid_bin_size) + 1)
          /\ call.grid_bin_size = 1000 => call.out = 121
    /\ (call.fn = "calc_bin" /\ InArena(call.vertex) /\ call.grid_bin_size >= 250) =>
          (0 <= call.out /\ call.out < CalcBinCount(call.grid_bin_size))
    /\ (call.fn = "build_map" /\ call.grid_bin_size >= 250
            /\ \A e \in BuildIds : \A k \in 1..5 : InArena(BuildCatalogue[e][k])) =>
          \A b \in DOMAIN call.out.object_map :
              0 <= b /\ b < CalcBinCount(call.grid_bin_size)

\* C14, its case: calc_bin has returned, for the arena's far corner, a bin
\* that the count without the margin would leave out.
C14_Witness ==
    /\ call.fn = "calc_bin"
    /\ call.vertex = <<GRID_WIDTH, GRID_HEIGHT>>
    /\ call.grid_bin_size = 1000
    /\ call.out = 110

\* C15: for ranges with min <= max, check_overlap(r1, r2) is true exactly
\* when max(min1, min2) <= min(max1, max2), touching ranges included, and
\* check_overlap(r2, r1) gives the same.
C15_OverlapInclusiveSymmetric ==
    call.fn = "check_overlap" =>
        /\ call.out = (Max2(call.range1[1], call.range2[1]) <= Min2(call.range1[2], call.range2[2]))
        /\ call.out = CheckOverlap(call.range2, call.range1)

\* C15, its case: check_overlap has returned true for [1, 3] and [3, 5],
\* which only touch.
C15_Witness ==
    /\ call.fn = "check_overlap"
    /\ call.range1 = <<1, 3>>
    /\ call.range2 = <<3, 5>>
    /\ call.out = TRUE

\* The projections of the vertices of a polygon on an axis.
Projections(poly, axis) ==
    {poly[i][1] * axis[1] + poly[i][2] * axis[2] : i \in 1..Len(poly)}

\* The normals of the edges of a polygon.
EdgeNormals(poly) ==
    {<<-(poly[i][2] - poly[i - 1][2]), poly[i][1] - poly[i - 1][1]>> : i \in 2..Len(poly)}

\* Some edge normal of one of the two polygons separates their projections.
Separated(poly1, poly2) ==
    \E axis \in EdgeNormals(poly1) \cup EdgeNormals(poly2) :
        \/ \A a \in Projections(poly1, axis), b \in Projections(poly2, axis) : a < b
        \/ \A a \in Projections(poly1, axis), b \in Projections(poly2, axis) : b < a

\* The x-extents and the y-extents of two rectangles overlap, inclusively.
ExtentsOverlap(rect1, rect2) ==
    /\ rect1[1][1] <= rect2[3][1] /\ rect2[1][1] <= rect1[3][1]
    /\ rect1[1][2] <= rect2[3][2] /\ rect2[1][2] <= rect1[3][2]

\* C16: on closed polygons is_collision returns false exactly when some
\* edge normal of either polygon separates the projections of the two; on
\* two axis-aligned rectangles it returns true exactly when their x-extents
\* and their y-extents overlap, rectangles that only touch included.
C16_SeparatingAxis ==
    (call.fn = "is_collision" /\ ~call.out.panic) =>
        /\ call.out.value = ~Separated(call.poly1, call.poly2)
        /\ (call.poly1 \in Rectangles /\ call.poly2 \in Rectangles) =>
              call.out.value = ExtentsOverlap(call.poly1, call.poly2)
        /\ (call.poly1 = Rectangle(1, 1, 3, 3) /\ call.poly2 = Rectangle(2, 2, 4, 4)) =>
              call.out.value = TRUE
        /\ (call.poly1 = Rectangle(1, 1, 3, 3) /\ call.poly2 = Rectangle(4, 4, 6, 6)) =>
              call.out.value = FALSE

\* C16, its case: is_collision has returned true for two rectangles that
\* share one corner only.
C16_Witness ==
    /\ call.fn = "is_collision"
    /\ call.poly1 = Rectangle(0, 0, 1, 1)
    /\ call.poly2 = Rectangle(1, 1, 2, 3)
    /\ ~call.out.panic
    /\ call.out.value = TRUE

\* The first vertex of a vertex list is its last.
Closed(poly) == poly[1] = poly[Len(poly)]

\* C17: is_collision panics, and returns nothing, exactly when the first
\* vertex of one of its polygons is not its last.
C17_OpenPolygonPanics ==
    call.fn = "is_collision" =>
        (call.out.panic <=> (~Closed(call.poly1) \/ ~Closed(call.poly2)))

\* C17, its case: is_collision has panicked on a closed first polygon and
\* an open second one.
C17_Witness ==
    /\ call.fn = "is_collision"
    /\ Closed(call.poly1)
    /\ ~Closed(call.poly2)
    /\ call.out.panic

\* The squared side lengths calc_bin_size was given by the first entries
\* of the maps.
RepresentativeSqrs ==
    {BoxSideLenSqr(Catalogue[call.rep[k]].geom) : k \in DOMAIN call.rep}

\* C18: calc_bin_size never returns less than 250, and returns 250 when the
\* four maps are empty and when twice the largest representative squared
\* side length is below 250 * 250.
C18_BinSizeFloor ==
    call.fn = "calc_bin_size" =>
        /\ call.out >= 250
        /\ call.world = {} => call.out = 250
        /\ (\A sqr \in RepresentativeSqrs : 2 * sqr < 250 * 250) => call.out = 250
        /\ (\E sqr \in RepresentativeSqrs : 2 * sqr > 250 * 250) => call.out > 250

\* C18, its case: calc_bin_size has returned 250 for maps that are not all
\* empty and whose representatives are small boxes.
C18_Witness ==
    /\ call.fn = "calc_bin_size"
    /\ call.world # {}
    /\ \A sqr \in RepresentativeSqrs : 2 * sqr < 250 * 250
    /\ call.out = 250

\* ------------------------------------------------------------------------
\* Claims on update_world
\* ------------------------------------------------------------------------

\* update_world has returned.
Returned == pc = "idle" /\ tick.n > 0

\* The ids the handler calls of the tick were made with.
Involved == UNION {{calls[i][2], calls[i][3]} : i \in 1..Len(calls)}

\* The walls the baddie-wall handler was called with for a baddie.
WallsHit(baddie_id) ==
    {calls[i][3] : i \in {j \in 1..Len(calls) :
                            calls[j][1] = "BaddieWall" /\ calls[j][2] = baddie_id}}

\* C19 as stated: the velocity of every baddie that collided with a wall in
\* the tick is, after update_world, the negation of its velocity before,
\* however many walls it collided with.
C19_VelocityNegated ==
    Returned =>
        \A b \in DOMAIN shapes :
            WallsHit(b) # {} =>
                shapes[b].vel = <<-tick.shapes[b].vel[1], -tick.shapes[b].vel[2]>>

\* C20: when update_world has returned, no bullet and no baddie of a
\* detected (bullet, baddie) pair is left in the entities, shapes,
\* geometries or healths, and every bullet inside the world and every
\* baddie that took part in no collision is still there.
C20_BulletAndBaddieDestroyed ==
    Returned =>
        /\ \A i \in 1..Len(calls) :
              calls[i][1] = "BulletBaddie" =>
                  {calls[i][2], calls[i][3]} \cap
                      (DOMAIN entities \cup DOMAIN shapes \cup DOMAIN geometries
                          \cup DOMAIN healths) = {}
        /\ \A id \in DOMAIN tick.entities :
              (/\ tick.entities[id] \in {"Bullet", "Baddie"}
               /\ id \notin Involved
               /\ tick.entities[id] = "Bullet" =>
                      IsInsideWorld(UpdatePos(tick.shapes[id], tick.dt, FALSE).center))
              => (id \in DOMAIN entities /\ id \in DOMAIN shapes /\ id \in DOMAIN geometries)

\* C20, its case: update_world has returned after a bullet met a baddie,
\* and a bullet or a baddie that met nothing is still in the world.
C20_Witness ==
    /\ Returned
    /\ \E i \in 1..Len(calls) : calls[i][1] = "BulletBaddie"
    /\ \E id \in DOMAIN entities : entities[id] \in {"Bullet", "Baddie"} /\ id \notin Involved

\* The ids the handler of `kind` was called with on the left in the tick.
LeftOf(kind) == {calls[i][2] : i \in {j \in 1..Len(calls) : calls[j][1] = kind}}

\* The ids that are in one of the four collections of the world.
InWorld == DOMAIN entities \cup DOMAIN shapes \cup DOMAIN geometries \cup DOMAIN healths

\* The entities of `kind` in the world update_world was called with.
GivenOf(kind) == {id \in DOMAIN tick.entities : tick.entities[id] = kind}

\* C21: when update_world has returned, no bullet that was detected as
\* colliding with a wall in the tick is left in the world, and every wall of
\* the world it was called with is still there, with its shape and geometry.
C21_BulletDestroyedWallKept ==
    Returned =>
        /\ LeftOf("BulletWall") \cap InWorld = {}
        /\ \A w \in GivenOf("Wall") :
              /\ w \in DOMAIN entities /\ entities[w] = "Wall"
              /\ w \in DOMAIN shapes /\ w \in DOMAIN geometries

\* C21, its case: update_world has returned after a bullet met a wall.
C21_Witness ==
    /\ Returned
    /\ LeftOf("BulletWall") # {}
    /\ \E w \in DOMAIN entities : entities[w] = "Wall"

\* The baddies baddie_cannon_handler was called with for a cannon in the tick.
BaddiesAt(cannon_id) ==
    {calls[i][2] : i \in {j \in 1..Len(calls) :
                            calls[j][1] = "BaddieCannon" /\ calls[j][3] = cannon_id}}

\* C22: when update_world has returned, no baddie detected as colliding
\* with the cannon in the tick is left in the world, the cannon is still in
\* the world, and its health is the health it had before the tick less the
\* number of those baddies.
C22_BaddieDestroyedHealthDecreased ==
    Returned =>
        /\ LeftOf("BaddieCannon") \cap InWorld = {}
        /\ \A c \in GivenOf("Cannon") :
              /\ c \in DOMAIN entities /\ entities[c] = "Cannon"
              /\ c \in DOMAIN shapes /\ c \in DOMAIN geometries /\ c \in DOMAIN healths
              /\ healths[c] = tick.healths[c] - Cardinality(BaddiesAt(c))

\* C22, its case: update_world has returned after two baddies met the
\* cannon, which has lost two of its health.
C22_Witness ==
    /\ Returned
    /\ \E c \in DOMAIN entities :
          /\ Cardinality(BaddiesAt(c)) = 2
          /\ healths[c] = tick.healths[c] - 2

\* The entities of `kind` in the world as it is.
LeftOfKind(kind) == {id \in DOMAIN entities : entities[id] = kind}

\* C23: the LevelState update_world returned is GameOver when the cannon's
\* health is 0 at the end of the tick, whether or not a baddie is left;
\* otherwise it is Complete when no baddie is left and InProgress when one is.
C23_LevelState ==
    Returned =>
        level_state =
            IF \E c \in LeftOfKind("Cannon") : healths[c] = 0 THEN "GameOver"
            ELSE IF LeftOfKind("Baddie") = {} THEN "Complete"
            ELSE "InProgress"

\* C23, its case: update_world has returned GameOver for a world without
\* baddies, in which the cannon's health is 0.
C23_Witness ==
    /\ Returned
    /\ level_state = "GameOver"
    /\ LeftOfKind("Baddie") = {}
    /\ \E c \in LeftOfKind("Cannon") : healths[c] = 0

\* C24: in the world update_world has returned, the centre (x, y) of every
\* bullet has 0 < x <= GRID_WIDTH and 0 < y <= GRID_HEIGHT.
C24_BulletsInsideWorld ==
    Returned =>
        \A b \in LeftOfKind("Bullet") :
            /\ 0 < shapes[b].center[1] /\ shapes[b].center[1] <= GRID_WIDTH
            /\ 0 < shapes[b].center[2] /\ shapes[b].center[2] <= GRID_HEIGHT

\* C24, its case: update_world has returned; a bullet that met nothing
\* is gone, having left the arena, and another bullet is still in the world.
C24_Witness ==
    /\ Returned
    /\ \E b \in GivenOf("Bullet") : b \notin Involved /\ b \notin DOMAIN entities
    /\ LeftOfKind("Bullet") # {}

\* C25, its consequence for update_world: the centre of every baddie and of
\* the cannon is inside [0, GRID_WIDTH) x [0, GRID_HEIGHT) in every state of
\* a game, the steps of a tick being smaller than the arena.
C25_CentresInsideArena ==
    \A id \in DOMAIN shapes :
        (id \in DOMAIN entities /\ entities[id] \in {"Baddie", "Cannon"}) =>
            /\ 0 <= shapes[id].center[1] /\ shapes[id].center[1] < GRID_WIDTH
            /\ 0 <= shapes[id].center[2] /\ shapes[id].center[2] < GRID_HEIGHT

\* C25, the case of that consequence: update_world has returned with a
\* baddie that left the arena on one side and came back on the other.
C25_Wrapped ==
    /\ Returned
    /\ \E b \in LeftOfKind("Baddie") :
          (shapes[b].center[1] - tick.shapes[b].center[1]) * tick.shapes[b].vel[1] < 0

\* ------------------------------------------------------------------------
\* Claims on the functions of game_logic.rs, helpers.rs and entity.rs
\* ------------------------------------------------------------------------

\* C25: for 0 <= start < bound and |amt| <= bound, move_with_wrap(start,
\* amt, bound) is the value of [0, bound) congruent to start + amt modulo
\* bound.
C25_WrapsIntoRange ==
    (/\ call.fn = "move_with_wrap"
     /\ 0 <= call.start /\ call.start < call.bound
     /\ -call.bound <= call.amt /\ call.amt <= call.bound)
    => /\ 0 <= call.out /\ call.out < call.bound
       /\ call.out % call.bound = (call.start + call.amt) % call.bound

\* C25, its case: the call of tests::baddies_wrap_at_screen_edge_rl, which
\* leaves the arena on the left and comes back on the right.
C25_Witness ==
    /\ call.fn = "move_with_wrap"
    /\ call.start = 10 /\ call.amt = -20 /\ call.bound = GRID_WIDTH
    /\ call.out = GRID_WIDTH - 10

\* The elements of a sequence.
Elements(seq) == {seq[k] : k \in 1..Len(seq)}

\* The indices of a list are distinct.
Distinct(seq) == \A i, j \in 1..Len(seq) : i # j => seq[i] # seq[j]

\* C27 as stated: for every vector and every list of distinct in-bounds
\* indices, in any order, remove_multiple does not panic and leaves exactly
\* the elements whose original index is not listed; it panics when an index
\* is out of bounds.
C27_RemovesListedIndices ==
    call.fn = "remove_multiple" =>
        LET in_bounds == \A i \in Elements(call.to_remove) : i < Len(call.vector)
        IN  /\ (Distinct(call.to_remove) /\ in_bounds) =>
                  /\ ~call.out.panic
                  /\ Len(call.out.vector) = Len(call.vector) - Len(call.to_remove)
                  /\ Elements(call.out.vector) =
                         Elements(call.vector) \ Elements(call.to_remove)
            /\ ~in_bounds => call.out.panic

\* C29: for closed polygons A and B, is_collision(A, B) does not panic and
\* is equal to is_collision(B, A).
C29_IsCollisionSymmetric ==
    (call.fn = "is_collision" /\ Closed(call.poly1) /\ Closed(call.poly2)) =>
        /\ ~call.out.panic
        /\ call.out.value = IsCollisionAsserted(call.poly2, call.poly1).value

\* C29, its case: is_collision(A, B) is false for two different closed
\* polygons that no normal of A's edges separates, only one of B's.
C29_Witness ==
    /\ call.fn = "is_collision"
    /\ Closed(call.poly1) /\ Closed(call.poly2) /\ call.poly1 # call.poly2
    /\ ~call.out.panic /\ ~call.out.value
    /\ \A iv \in 2..Len(call.poly1) : AxisOverlaps(call.poly1, iv, call.poly1, call.poly2)

\* C28: in a sequence of fewer than 2^IdBits Entity::new calls of one
\* process, no call panics and every id is strictly greater than every id
\* made before it.
C28_IdsStrictlyIncreasing ==
    call.fn = "Entity::new" =>
        /\ call.panic => Len(call.ids) >= 2^IdBits - 1
        /\ \A j \in 1..Len(call.ids) :
              j < 2^IdBits => \A i \in 1..(j - 1) : call.ids[i] < call.ids[j]

\* C28, its case: the longest such sequence of calls has been made, ending
\* with the largest id.
C28_Witness ==
    /\ call.fn = "Entity::new"
    /\ ~call.panic
    /\ Len(call.ids) = 2^IdBits - 1
    /\ call.ids[Len(call.ids)] = 2^IdBits - 1

\* A map restricted to the keys of `keys`.
Restrict(map, keys) == [k \in keys |-> map[k]]

\* C26: try_fire called with now > prev + 1000 ms adds exactly one bullet
\* to the world, at the cannon's centre, changes nothing else and returns
\* `now`; called otherwise it leaves the world as it is and returns `prev`.
\* Hence any two bullets it has made were made more than 1000 ms apart.
C26_FireThrottled ==
    /\ (pc = "play" /\ call.fn = "try_fire") =>
          LET old == DOMAIN call.world.entities
          IN  IF call.now > call.prev + 1000
              THEN /\ prev_fire_time = call.now
                   /\ Cardinality(DOMAIN entities \ old) = 1
                   /\ \A b \in DOMAIN entities \ old :
                         /\ entities[b] = "Bullet"
                         /\ shapes[b].center =
                                GetCannonPos(call.world.entities, call.world.shapes)
                         /\ b \in DOMAIN geometries /\ b \notin DOMAIN healths
                   /\ Restrict(entities, old) = call.world.entities
                   /\ Restrict(shapes, old) = call.world.shapes
                   /\ Restrict(geometries, old) = call.world.geometries
                   /\ healths = call.world.healths
              ELSE /\ prev_fire_time = call.prev
                   /\ TheWorld = call.world
    /\ \A i, j \in 1..Len(fired) : i < j => fired[j][2] - fired[i][2] > 1000

\* C26, its case: try_fire has been called three times in a game; it has
\* refused once and made two bullets, the second one in the call just made,
\* and both are in the world.
C26_Witness ==
    /\ pc = "play" /\ call.fn = "try_fire"
    /\ call.n = 3
    /\ Len(fired) = 2
    /\ call.now = fired[2][2]
    /\ call.prev = fired[1][2]
    /\ {fired[1][1], fired[2][1]} \subseteq DOMAIN entities

====
